---------------------------- MODULE Spec2Model ----------------------------
(***************************************************************************)
(* A model of odoo_importer's extraction core: the provider detector       *)
(* (adapters/__init__.py), the row groupers and the three vendor adapters  *)
(* (adapters/gpautomocion.py, adapters/varona.py, adapters/michelin.py),   *)
(* the numeric helpers of the core (core/normalize.py,                     *)
(* core/odoo_importer.py), the batch loop of cli.py and the forced import  *)
(* of pipeline.py.                                                         *)
(*                                                                         *)
(* Conventions.  A PDF word is a record [text, x0, top, id]: text is a     *)
(* string, x0 is in layout units, top is in TENTHS of a layout unit (so    *)
(* the tolerances 1.2 and 1.0 of the source are 12 and 10), id is the      *)
(* word's position in the extractor's output and is read by no operation   *)
(* of the program.  Python's None is the string "None" where the other     *)
(* values are strings, and the empty sequence where they are numbers.      *)
(* A table (DataFrame) is a record [cols, rows]: the column names in order *)
(* and the rows, each a function from the column names to strings; a cell  *)
(* pandas would leave as NaN holds the marker NaN.                         *)
(***************************************************************************)
EXTENDS Integers, Sequences, FiniteSets, TLC

VARIABLES
    \* ---- provider detection (adapters/__init__.py: detect_provider)
    txt,        \* the document text
    filename,   \* the PDF's file name
    hits,       \* keys of the adapters whose detect() returned True so far
    reg_i,      \* next registry entry to try (1-based)
    provider,   \* "pending", or the value returned: a key or "None"
    \* ---- row grouping (_agrupar_por_filas / agrupar_filas)
    g_variant,  \* "grupo_pena" or "varona": which grouper runs
    g_input,    \* the words as supplied
    g_words,    \* the words sorted by top
    g_i,        \* next word of g_words to place
    filas,      \* rows closed so far
    fila,       \* the open row
    y_ref,      \* <<>> (None) or <<reference top of the open row>>
    g_pc,       \* "idle" | "sort" | "loop" | "done"
    \* ---- an adapter's parse(pdf_path)
    adapter,    \* the key of the adapter that parses
    palabras,   \* the words of the first page (grupo_pena, varona)
    m_lines,    \* the lines of the document's text (michelin)
    qty_map,    \* CAI -> quantity as read from the page layout (michelin)
    p_rows,     \* grouped rows still to parse
    p_log,      \* per parsed row: the row and what it appended
    lineas,     \* the lines (items) collected so far
    df,         \* the table returned
    raised,     \* parse() raised ValueError
    p_pc,       \* "idle" | "start" | "rows" | "build" | "done"
    \* ---- one call of a numeric helper of the core
    n_fn,       \* "parse_decimal" or "_parse_discounts_chain"
    n_in,       \* the argument: a string, or "None"
    n_default,  \* parse_decimal's default
    n_out,      \* the value returned
    n_pc,       \* "idle" | "call" | "done"
    \* ---- the batch loop of cli.main
    c_target,   \* the input path: a directory with its entries, or a file
    c_do_import,\* --import was given
    c_provider, \* --provider, "" when absent
    c_pdfs,     \* the list pdfs
    c_i,        \* the position of the loop in pdfs (1-based)
    c_reads,    \* the PDFs handed to read_pdf_text so far
    c_log,      \* per PDF that ended: how it ended
    c_stage,    \* "idle" | "list" | "read" | "detect" | "parse" | "write"
    c_files,    \* the PDFs whose CSV is written, is imported, and that were moved
                \* | "import" | "move" | "done" | "exit" (SystemExit)
    \* ---- a forced import: pipeline.main, then import_csv in the child
    i_args,     \* the flags --force-import and --no-import
    i_environ,  \* os.environ of the pipeline
    i_child_env,\* the environment given to the child process
    i_orders,   \* the purchase orders Odoo holds
    i_before,   \* the purchase orders before import_csv ran
    i_csv,      \* the CSV to import
    i_hash_field, \* the server knows the field x_import_hash
    i_result,   \* what import_csv did
    i_pc,       \* "idle" | "pipeline" | "import" | "done"
    o_e,        \* the importer's settings: dedup_by_partner_ref and force
    o_server,   \* what Odoo answers: the partner, the field x_import_hash, products
    o_csv,      \* the CSV file: its path, its reference and its rows
    o_orders,   \* the purchase orders Odoo holds
    o_calls,    \* per import_csv call: its result and the order lines it built
    o_pc,       \* "idle" | "ready"
    pl_no_fetch,\* --no-fetch-mail was given
    pl_inbox,   \* the names of the files in the inbox
    pl_out,     \* the names of the CSV files in the output folder
    pl_local,   \* pdfs_local: the PDFs found before the first pass
    pl_before,  \* csvs_before: the CSV names before the first pass
    pl_runs,    \* per run of cli.py: --fetch-mail, its return code, the CSVs after it
    pl_exit,    \* <<>> while running, <<status>> once the pipeline ended
    pl_pc,      \* "idle" | "scan" | "first" | "decide" | "done"
    gm_cfg, \* GMAIL_MARK_SEEN, and whether the mailbox was opened read-write
    gm_ids, \* the messages the search returned, each a sequence of parts
    gm_i, \* the position of the loop in ids (1-based)
    gm_part, \* the next part of the message to look at
    gm_seen, \* the positions of the messages flagged \Seen on the server
    gm_disk, \* the paths that exist in the download folder
    gm_paths, \* paths: what the current message saved so far
    gm_saves, \* per _save_pdf call: the message, the name, the path written
    gm_log, \* per message that ended: how it ended and what it saved
    gm_pc, \* "idle" | "fetch" | "parts" | "done"
    fp_templates,\* the product templates Odoo holds
    fp_needles, \* the argument needles
    fp_out,     \* <<>> (None) or <<the product id returned>>
    fp_pc       \* "idle" | "call" | "done"

detectVars == <<txt, filename, hits, reg_i, provider>>
groupVars == <<g_variant, g_input, g_words, g_i, filas, fila, y_ref, g_pc>>
parseVars == <<adapter, palabras, m_lines, qty_map, p_rows, p_log, lineas, df,
               raised, p_pc>>
numVars == <<n_fn, n_in, n_default, n_out, n_pc>>
cliVars == <<c_target, c_do_import, c_provider, c_pdfs, c_i, c_reads, c_log,
             c_stage, c_files>>
importVars == <<i_args, i_environ, i_child_env, i_orders, i_before, i_csv,
                i_hash_field, i_result, i_pc>>
odooVars == <<o_e, o_server, o_csv, o_orders, o_calls, o_pc>>
pipeVars == <<pl_no_fetch, pl_inbox, pl_out, pl_local, pl_before, pl_runs, pl_exit, pl_pc>>
mailVars == <<gm_cfg, gm_ids, gm_i, gm_part, gm_seen, gm_disk, gm_paths, gm_saves, gm_log, gm_pc>>
findVars == <<fp_templates, fp_needles, fp_out, fp_pc>>
vars == <<detectVars, groupVars, parseVars, numVars,
         cliVars, importVars, odooVars, pipeVars, mailVars, findVars>>

\* what each component leaves alone
detectOthers == <<groupVars, parseVars, numVars, cliVars,
        importVars, odooVars, pipeVars, mailVars, findVars>>
groupOthers == <<detectVars, parseVars, numVars, cliVars,
        importVars, odooVars, pipeVars, mailVars, findVars>>
parseOthers == <<detectVars, groupVars, numVars, cliVars,
        importVars, odooVars, pipeVars, mailVars, findVars>>
numOthers == <<detectVars, groupVars, parseVars, cliVars,
        importVars, odooVars, pipeVars, mailVars, findVars>>
cliOthers == <<detectVars, groupVars, parseVars, numVars,
        importVars, odooVars, pipeVars, mailVars, findVars>>
importOthers == <<detectVars, groupVars, parseVars, numVars,
        cliVars, odooVars, pipeVars, mailVars, findVars>>
odooOthers == <<detectVars, groupVars, parseVars, numVars,
        cliVars, importVars, pipeVars, mailVars, findVars>>
pipeOthers == <<detectVars, groupVars, parseVars, numVars,
        cliVars, importVars, odooVars, mailVars, findVars>>
mailOthers == <<detectVars, groupVars, parseVars, numVars,
        cliVars, importVars, odooVars, pipeVars, findVars>>
findOthers == <<detectVars, groupVars, parseVars, numVars,
        cliVars, importVars, odooVars, pipeVars, mailVars>>

-----------------------------------------------------------------------------
(* Strings, character by character.                                        *)

Min(a, b) == IF a < b THEN a ELSE b
Max(a, b) == IF a > b THEN a ELSE b

\* s[i-1:i] and s[a-1:b] of Python: positions outside s yield no character
Char(s, i) == IF i >= 1 /\ i <= Len(s) THEN SubSeq(s, i, i) ELSE ""
Slice(s, a, b) ==
    IF Max(a, 1) > Min(b, Len(s)) THEN "" ELSE SubSeq(s, Max(a, 1), Min(b, Len(s)))

Digits == "0123456789"
UpperLetters == "ABCDEFGHIJKLMNOPQRSTUVWXYZ"
LowerLetters == "abcdefghijklmnopqrstuvwxyz"
\* accented letters of the documents, with their upper case and their base
\* letter (NFD followed by the removal of the combining marks)
AccentLower == "ñáéíóúü"
AccentUpper == "ÑÁÉÍÓÚÜ"
AccentLowerBase == "naeiouu"
AccentUpperBase == "NAEIOUU"

InStr(c, s) == \E i \in 1..Len(s) : Char(s, i) = c
IndexIn(c, s) == CHOOSE i \in 1..Len(s) : Char(s, i) = c

IsDigit(c) == InStr(c, Digits)
IsAsciiUpper(c) == InStr(c, UpperLetters)
IsAsciiLower(c) == InStr(c, LowerLetters)
IsAsciiAlnum(c) == IsDigit(c) \/ IsAsciiUpper(c) \/ IsAsciiLower(c)

\* str.upper() on one character
UpperChar(c) ==
    IF InStr(c, LowerLetters) THEN Char(UpperLetters, IndexIn(c, LowerLetters))
    ELSE IF InStr(c, AccentLower) THEN Char(AccentUpper, IndexIn(c, AccentLower))
    ELSE c

\* str.lower() on one character
LowerChar(c) ==
    IF InStr(c, UpperLetters) THEN Char(LowerLetters, IndexIn(c, UpperLetters))
    ELSE IF InStr(c, AccentUpper) THEN Char(AccentLower, IndexIn(c, AccentUpper))
    ELSE c

\* unicodedata.normalize("NFD", c) with the characters of category Mn removed
StripAccentChar(c) ==
    IF InStr(c, AccentLower) THEN Char(AccentLowerBase, IndexIn(c, AccentLower))
    ELSE IF InStr(c, AccentUpper) THEN Char(AccentUpperBase, IndexIn(c, AccentUpper))
    ELSE c

RECURSIVE Upper(_)
Upper(s) == IF s = "" THEN "" ELSE UpperChar(Head(s)) \o Upper(Tail(s))

RECURSIVE Lower(_)
Lower(s) == IF s = "" THEN "" ELSE LowerChar(Head(s)) \o Lower(Tail(s))

RECURSIVE StripAccents(_)
StripAccents(s) ==
    IF s = "" THEN "" ELSE StripAccentChar(Head(s)) \o StripAccents(Tail(s))

\* needle in hay
Contains(hay, needle) ==
    \E i \in 1..(Len(hay) - Len(needle) + 1) :
        SubSeq(hay, i, i + Len(needle) - 1) = needle

StartsWith(s, p) == Len(p) <= Len(s) /\ SubSeq(s, 1, Len(p)) = p

\* s.replace(a, b) for single characters a and b
RECURSIVE ReplaceChar(_, _, _)
ReplaceChar(s, a, b) ==
    IF s = "" THEN ""
    ELSE (IF Head(s) = a THEN b ELSE Head(s)) \o ReplaceChar(Tail(s), a, b)

\* " ".join(parts) for a sequence of strings
RECURSIVE JoinWith(_, _)
JoinWith(parts, sep) ==
    IF parts = <<>> THEN ""
    ELSE IF Len(parts) = 1 THEN parts[1]
    ELSE parts[1] \o sep \o JoinWith(Tail(parts), sep)

-----------------------------------------------------------------------------
(* Sequences.                                                              *)

Abs(n) == IF n < 0 THEN -n ELSE n

\* the elements of s at the indices of the set I, in the order of s
RECURSIVE SubSeqAt(_, _)
SubSeqAt(s, I) ==
    IF I = {} THEN <<>>
    ELSE LET m == CHOOSE i \in I : \A j \in I : i <= j
         IN <<s[m]>> \o SubSeqAt(s, I \ {m})

\* sorted(ws, key=lambda w: w[key]): Python's sort is stable
SortedBy(ws, key) ==
    LET Ins[n \in 0..Len(ws)] ==
            IF n = 0 THEN <<>>
            ELSE LET init == Ins[n - 1]
                     w == ws[n]
                     k == Cardinality({i \in 1..Len(init) : init[i][key] <= w[key]})
                 IN SubSeq(init, 1, k) \o <<w>> \o SubSeq(init, k + 1, Len(init))
    IN Ins[Len(ws)]

\* a plausible slip: the words are not sorted by top before grouping
UnsortedByTop(ws) == ws

SortByTop(ws) == SortedBy(ws, "top")
SortByX0(ws) == SortedBy(ws, "x0")

-----------------------------------------------------------------------------
(* Row grouping.                                                           *)

\* tolerances, in tenths of a layout unit
TolGrupoPena == 12
TolVarona == 10

Tol(variant) == IF variant = "grupo_pena" THEN TolGrupoPena ELSE TolVarona

\* One iteration of the loop `for w in words` of either grouper on the loop
\* state st = [filas, fila, y_ref].
\*   gpautomocion:  if y_ref is None: y_ref = w["top"]
\*   varona:        y_ref = y_ref or w["top"]     (0.0 is falsy)
\* and only gpautomocion sorts a row by x0 as it closes it.
GroupStep(variant, st, w) ==
    IF st.y_ref = <<>> \/ Abs(w.top - st.y_ref[1]) <= Tol(variant)
    THEN [filas |-> st.filas,
          fila |-> Append(st.fila, w),
          y_ref |-> IF variant = "grupo_pena"
                    THEN (IF st.y_ref = <<>> THEN <<w.top>> ELSE st.y_ref)
                    ELSE (IF st.y_ref = <<>> \/ st.y_ref[1] = 0
                          THEN <<w.top>> ELSE st.y_ref)]
    ELSE [filas |-> Append(st.filas,
                           IF variant = "grupo_pena" THEN SortByX0(st.fila)
                           ELSE st.fila),
          fila |-> <<w>>,
          y_ref |-> <<w.top>>]

\* `if fila: filas.append(...)` after the loop
GroupClose(variant, st) ==
    IF st.fila = <<>> THEN st.filas
    ELSE Append(st.filas,
                IF variant = "grupo_pena" THEN SortByX0(st.fila) ELSE st.fila)

RECURSIVE GroupLoopFrom(_, _, _)
GroupLoopFrom(variant, st, ws) ==
    IF ws = <<>> THEN st
    ELSE GroupLoopFrom(variant, GroupStep(variant, st, Head(ws)), Tail(ws))

GroupStart == [filas |-> <<>>, fila |-> <<>>, y_ref |-> <<>>]

\* the whole of _agrupar_por_filas (variant "grupo_pena") or agrupar_filas
\* (variant "varona")
GroupRows(variant, ws) ==
    GroupClose(variant, GroupLoopFrom(variant, GroupStart, SortByTop(ws)))

agrupar_por_filas(ws) == GroupRows("grupo_pena", ws)
agrupar_filas(ws) == GroupRows("varona", ws)

-----------------------------------------------------------------------------
(* The grouper as a process: one step per word.                            *)

MaxGroupWords == 3

GroupTops == {0, 8, 16, 22, 30}
GroupX0s == {40, 150}

GroupWordsOfLen(n) ==
    {[i \in 1..n |-> [text |-> "w", x0 |-> f[i][1], top |-> f[i][2], id |-> i]] :
        f \in [1..n -> GroupX0s \X GroupTops]}

GroupInputs == UNION {GroupWordsOfLen(n) : n \in 0..MaxGroupWords}

DetectIdle ==
    /\ txt = "" /\ filename = "" /\ hits = <<>> /\ reg_i = 0 /\ provider = "idle"

GroupIdle ==
    /\ g_variant = "none" /\ g_input = <<>> /\ g_words = <<>> /\ g_i = 0
    /\ filas = <<>> /\ fila = <<>> /\ y_ref = <<>> /\ g_pc = "idle"

\* the table of a parse() that has not returned one
NoTable == [cols |-> <<>>, rows |-> <<>>]

ParseIdle ==
    /\ adapter = "none" /\ palabras = <<>> /\ m_lines = <<>> /\ qty_map = <<>>
    /\ p_rows = <<>> /\ p_log = <<>> /\ lineas = <<>> /\ df = NoTable
    /\ raised = FALSE /\ p_pc = "idle"

NumIdle ==
    /\ n_fn = "none" /\ n_in = "" /\ n_default = <<>> /\ n_out = <<>>
    /\ n_pc = "idle"

CliIdle ==
    /\ c_target = <<>> /\ c_do_import = FALSE /\ c_provider = ""
    /\ c_pdfs = <<>> /\ c_i = 0 /\ c_reads = <<>> /\ c_log = <<>>
    /\ c_stage = "idle" /\ c_files = <<>>

ImportIdle ==
    /\ i_args = <<>> /\ i_environ = <<>> /\ i_child_env = <<>>
    /\ i_orders = <<>> /\ i_before = <<>> /\ i_csv = <<>>
    /\ i_hash_field = FALSE /\ i_result = "idle" /\ i_pc = "idle"

OdooIdle ==
    /\ o_e = <<>>
    /\ o_server = <<>>
    /\ o_csv = <<>>
    /\ o_orders = <<>>
    /\ o_calls = <<>>
    /\ o_pc = "idle"

PipeIdle ==
    /\ pl_no_fetch = FALSE
    /\ pl_inbox = {}
    /\ pl_out = {}
    /\ pl_local = <<>>
    /\ pl_before = {}
    /\ pl_runs = <<>>
    /\ pl_exit = <<>>
    /\ pl_pc = "idle"

MailIdle ==
    /\ gm_cfg = <<>>
    /\ gm_ids = <<>>
    /\ gm_i = 0
    /\ gm_part = 0
    /\ gm_seen = {}
    /\ gm_disk = {}
    /\ gm_paths = <<>>
    /\ gm_saves = <<>>
    /\ gm_log = <<>>
    /\ gm_pc = "idle"

FindIdle ==
    /\ fp_templates = {}
    /\ fp_needles = <<>>
    /\ fp_out = <<>>
    /\ fp_pc = "idle"

\* the components other than the one a specification runs
OthersIdle(c) ==
    /\ c = "detect" \/ DetectIdle
    /\ c = "group" \/ GroupIdle
    /\ c = "parse" \/ ParseIdle
    /\ c = "num" \/ NumIdle
    /\ c = "cli" \/ CliIdle
    /\ c = "import" \/ ImportIdle
    /\ c = "odoo" \/ OdooIdle
    /\ c = "pipe" \/ PipeIdle
    /\ c = "mail" \/ MailIdle
    /\ c = "find" \/ FindIdle

GroupInit ==
    /\ g_variant \in {"grupo_pena", "varona"}
    /\ g_input \in GroupInputs
    /\ g_words = <<>> /\ g_i = 0
    /\ filas = <<>> /\ fila = <<>> /\ y_ref = <<>>
    /\ g_pc = "sort"

\* words = sorted(words, key=lambda w: w["top"])
GroupSort ==
    /\ g_pc = "sort"
    /\ g_words' = SortByTop(g_input)
    /\ g_i' = 1
    /\ g_pc' = "loop"
    /\ UNCHANGED <<g_variant, g_input, filas, fila, y_ref>>
    /\ UNCHANGED groupOthers

\* one iteration of `for w in words`
GroupWord ==
    /\ g_pc = "loop"
    /\ g_i <= Len(g_words)
    /\ LET st == GroupStep(g_variant,
                           [filas |-> filas, fila |-> fila, y_ref |-> y_ref],
                           g_words[g_i])
       IN /\ filas' = st.filas
          /\ fila' = st.fila
          /\ y_ref' = st.y_ref
    /\ g_i' = g_i + 1
    /\ UNCHANGED <<g_variant, g_input, g_words, g_pc>>
    /\ UNCHANGED groupOthers

\* the loop is over: close the last row and return filas
GroupReturn ==
    /\ g_pc = "loop"
    /\ g_i > Len(g_words)
    /\ filas' = GroupClose(g_variant,
                           [filas |-> filas, fila |-> fila, y_ref |-> y_ref])
    /\ fila' = <<>>
    /\ g_pc' = "done"
    /\ UNCHANGED <<g_variant, g_input, g_words, g_i, y_ref>>
    /\ UNCHANGED groupOthers

GroupNext == GroupSort \/ GroupWord \/ GroupReturn

InitGroup == GroupInit /\ OthersIdle("group")

SpecGroup == InitGroup /\ [][GroupNext]_vars

-----------------------------------------------------------------------------
(* Provider detection.                                                     *)

\* the registry, in registration order: adapters/__init__.py imports
\* gpautomocion, michelin and varona in this order and each registers itself
Registry == <<"grupo_pena", "michelin", "varona">>

\* re.search(r"VA0\d+", s)
SearchVA0Digits(s) ==
    \E i \in 1..(Len(s) - 3) : SubSeq(s, i, i + 2) = "VA0" /\ IsDigit(Char(s, i + 3))

\* a plausible slip: the content test without case and accent folding
GrupoPenaDetectUnfolded(t, fn) ==
    \/ StartsWith(Upper(fn), "GPA_")
    \/ Contains(Upper(fn), "GPA-")
    \/ Contains(t, "GRUPO PENA")
    \/ Contains(t, "GP AUTOMOCION")

\* GrupoPenaAdapter.detect
GrupoPenaDetect(t, fn) ==
    \/ StartsWith(Upper(fn), "GPA_")
    \/ Contains(Upper(fn), "GPA-")
    \/ Contains(Upper(StripAccents(t)), "GRUPO PENA")
    \/ Contains(Upper(StripAccents(t)), "GP AUTOMOCION")
    \/ Contains(Upper(t), "GRUPO PEÑA")
    \/ Contains(Upper(t), "GP AUTOMOCIÓN")

\* Michelin.detect
MichelinDetect(t, fn) ==
    /\ Contains(Upper(t), "MICHELIN")
    /\ \/ Contains(Upper(t), "ENTREGAS DIARIAS")
       \/ Contains(Upper(t), "CAI :")

\* Varona.detect
VaronaDetect(t, fn) ==
    \/ Contains(t, "VARONA 2008")
    \/ SearchVA0Digits(Upper(fn))

\* Adapter.detect(txt, filename) for the adapter registered under key.  With
\* str arguments none of the three bodies raises, so the `except Exception:
\* continue` of detect_provider is never taken.
AdapterDetect(key, t, fn) ==
    CASE key = "grupo_pena" -> GrupoPenaDetect(t, fn)
      [] key = "michelin" -> MichelinDetect(t, fn)
      [] key = "varona" -> VaronaDetect(t, fn)

\* a plausible slip: the first match wins
FirstHit(h) == IF Len(h) >= 1 THEN h[1] ELSE "None"

\* `if len(hits) == 1: return hits[0]` / `return None`
DetectResult(h) == IF Len(h) = 1 THEN h[1] ELSE "None"

\* detect_provider as a function
detect_provider(t, fn) ==
    DetectResult(SubSeqAt(Registry,
        {i \in 1..Len(Registry) : AdapterDetect(Registry[i], t, fn)}))

MaxFragments == 3

DetectFragments ==
    {"Grupo Peña", "GP AUTOMOCION", "Michelin", "ENTREGAS DIARIAS", "CAI :",
     "VARONA 2008", "Varona 2008", "Albarán"}

DetectTexts ==
    {JoinWith(f, " ") :
        f \in UNION {[1..n -> DetectFragments] : n \in 0..MaxFragments}}

DetectFilenames ==
    {"albaran.pdf", "GPA_0001.pdf", "doc-gpa-7.pdf", "VA020001.pdf", "va0.PDF"}

DetectInit ==
    /\ txt \in DetectTexts
    /\ filename \in DetectFilenames
    /\ hits = <<>>
    /\ reg_i = 1
    /\ provider = "pending"

\* one iteration of `for key, Adapter in registry.items()`
DetectTry ==
    /\ provider = "pending"
    /\ reg_i <= Len(Registry)
    /\ hits' = IF AdapterDetect(Registry[reg_i], txt, filename)
               THEN Append(hits, Registry[reg_i]) ELSE hits
    /\ reg_i' = reg_i + 1
    /\ UNCHANGED <<txt, filename, provider>>
    /\ UNCHANGED detectOthers

\* the loop is over: return the single hit, or None
DetectReturn ==
    /\ provider = "pending"
    /\ reg_i > Len(Registry)
    /\ provider' = DetectResult(hits)
    /\ UNCHANGED <<txt, filename, hits, reg_i>>
    /\ UNCHANGED detectOthers

DetectNext == DetectTry \/ DetectReturn

InitDetect == DetectInit /\ OthersIdle("detect")

SpecDetect == InitDetect /\ [][DetectNext]_vars

-----------------------------------------------------------------------------
(* Token shapes (regular expressions) and numbers.                         *)

AllDigits(s) == \A i \in 1..Len(s) : IsDigit(Char(s, i))

\* the length of the run of digits of s that starts at position i
RECURSIVE DigitRun(_, _)
DigitRun(s, i) ==
    IF i <= Len(s) /\ IsDigit(Char(s, i)) THEN 1 + DigitRun(s, i + 1) ELSE 0

\* NUM_RE_2_4.fullmatch(t):  -?\d+[.,]\d{2,4}
FullMatchNum24(t) ==
    LET b == IF StartsWith(t, "-") THEN 2 ELSE 1
        n == DigitRun(t, b)
        sep == b + n
        m == DigitRun(t, sep + 1)
    IN /\ n >= 1
       /\ sep <= Len(t)
       /\ Char(t, sep) \in {".", ","}
       /\ m >= 2 /\ m <= 4
       /\ sep + m = Len(t)

\* re.fullmatch(r"[0-9A-Za-z]{3}-[0-9A-Za-z\-]+", t)
FullMatchCodeGP(t) ==
    /\ Len(t) >= 5
    /\ \A i \in 1..3 : IsAsciiAlnum(Char(t, i))
    /\ Char(t, 4) = "-"
    /\ \A i \in 5..Len(t) : IsAsciiAlnum(Char(t, i)) \/ Char(t, i) = "-"

\* re.fullmatch(r"[A-Z0-9]{5,}", t)
FullMatchUpperAlnum5(t) ==
    /\ Len(t) >= 5
    /\ \A i \in 1..Len(t) : IsDigit(Char(t, i)) \/ IsAsciiUpper(Char(t, i))

\* the position of the first occurrence of the character c in s, 0 if none
FirstIndexOf(s, c) ==
    IF InStr(c, s)
    THEN CHOOSE i \in 1..Len(s) :
            Char(s, i) = c /\ \A j \in 1..(i - 1) : Char(s, j) # c
    ELSE 0

\* a plausible slip: cut at the last hyphen instead of the first
AfterLastHyphen(raw) ==
    IF InStr("-", raw)
    THEN LET k == CHOOSE i \in 1..Len(raw) :
                    Char(raw, i) = "-" /\ \A j \in (i + 1)..Len(raw) : Char(raw, j) # "-"
         IN SubSeq(raw, k + 1, Len(raw))
    ELSE raw

\* raw.split("-", 1)[1] if "-" in raw else raw
AfterFirstHyphen(raw) ==
    IF InStr("-", raw) THEN SubSeq(raw, FirstIndexOf(raw, "-") + 1, Len(raw))
    ELSE raw

\* s.strip() for the blanks of a joined description
RECURSIVE Strip(_)
Strip(s) ==
    IF s = "" THEN ""
    ELSE IF Head(s) \in {" ", "\n", "\t"} THEN Strip(Tail(s))
    ELSE IF Char(s, Len(s)) \in {" ", "\n", "\t"} THEN Strip(SubSeq(s, 1, Len(s) - 1))
    ELSE s

Texts(ws) == [i \in 1..Len(ws) |-> ws[i].text]

\* next((w for w in fila if cond), None) over the indices that satisfy cond:
\* <<>> for None, <<w>> otherwise
FirstAt(ws, I) ==
    IF I = {} THEN <<>> ELSE <<ws[CHOOSE i \in I : \A j \in I : i <= j]>>

\* max(ws, key=x0) over the indices I (not empty): the first of the largest
MaxX0At(ws, I) ==
    ws[CHOOSE i \in I :
          /\ \A j \in I : ws[j].x0 <= ws[i].x0
          /\ \A j \in I : ws[j].x0 = ws[i].x0 => i <= j]

-----------------------------------------------------------------------------
(* Vendor A (gpautomocion.py): one row of _parsear_lineas.                 *)

PROVEEDOR_GP == "GRUPO PEÑA AUTOMOCION, S.L."

\* The body of `for fila in _agrupar_por_filas(words)` on one row, with the
\* price rule as a parameter: <<>> when the row is skipped (continue),
\* <<line>> when a line is appended.
GPCodeIdx(f) ==
    {i \in 1..Len(f) : f[i].x0 >= 30 /\ f[i].x0 <= 120 /\ FullMatchCodeGP(f[i].text)}
GPQtyIdx(f) ==
    {i \in 1..Len(f) : f[i].x0 >= 300 /\ f[i].x0 <= 360 /\ FullMatchNum24(f[i].text)}
GPPriceIdx(f) ==
    {i \in 1..Len(f) :
        /\ f[i].x0 >= 470 /\ f[i].x0 <= 510
        /\ (FullMatchNum24(f[i].text) \/ f[i].text = "-")}
GPNumIdx(f) == {i \in 1..Len(f) : FullMatchNum24(f[i].text)}
GPDescIdx(f) == {i \in 1..Len(f) : f[i].x0 >= 130 /\ f[i].x0 < 300}

\* a plausible slip: a number in the band wins over a '-' to its left
GPPriceNumberFirst(f) ==
    LET pn == {i \in GPPriceIdx(f) : f[i].text # "-"}
    IN IF pn # {} THEN <<ReplaceChar(FirstAt(f, pn)[1].text, ",", ".")>>
       ELSE IF GPPriceIdx(f) # {} THEN <<"0">>
       ELSE IF GPNumIdx(f) # {}
            THEN <<ReplaceChar(MaxX0At(f, GPNumIdx(f)).text, ",", ".")>>
       ELSE <<>>

\* the price of a row: <<>> when the row has none (continue)
GPPrice(f) ==
    LET price_tok == FirstAt(f, GPPriceIdx(f))
    IN IF price_tok # <<>>
       THEN (IF price_tok[1].text = "-" THEN <<"0">>
             ELSE <<ReplaceChar(price_tok[1].text, ",", ".")>>)
       ELSE IF GPNumIdx(f) # {}
            THEN <<ReplaceChar(MaxX0At(f, GPNumIdx(f)).text, ",", ".")>>
       ELSE IF \E i \in 1..Len(f) :
                   f[i].x0 >= 470 /\ f[i].x0 <= 510 /\ f[i].text = "-"
            THEN <<"0">>
       ELSE <<>>

\* a plausible slip: the description band closed at 300
GPDescClosedBand(f) ==
    Strip(JoinWith(Texts(SubSeqAt(f,
        {i \in 1..Len(f) : f[i].x0 >= 130 /\ f[i].x0 <= 300})), " "))

GPDesc(f) == Strip(JoinWith(Texts(SubSeqAt(f, GPDescIdx(f))), " "))

\* a plausible slip: a row without a price token in [470,510] is skipped
GPParseRowNeedsPriceToken(f) ==
    IF GPCodeIdx(f) = {} \/ GPQtyIdx(f) = {} \/ GPPriceIdx(f) = {} THEN <<>>
    ELSE <<[cod |-> AfterFirstHyphen(FirstAt(f, GPCodeIdx(f))[1].text),
            desc |-> GPDesc(f),
            qty |-> ReplaceChar(FirstAt(f, GPQtyIdx(f))[1].text, ",", "."),
            price |-> GPPrice(f)[1]]>>

GPParseRow(f) ==
    LET code_tok == FirstAt(f, GPCodeIdx(f))
        qty_tok == FirstAt(f, GPQtyIdx(f))
    IN IF code_tok = <<>> THEN <<>>
       ELSE IF qty_tok = <<>> THEN <<>>
       ELSE IF GPPrice(f) = <<>> THEN <<>>
       ELSE <<[cod |-> AfterFirstHyphen(code_tok[1].text),
               desc |-> GPDesc(f),
               qty |-> ReplaceChar(qty_tok[1].text, ",", "."),
               price |-> GPPrice(f)[1]]>>

RECURSIVE GPParseRows(_)
GPParseRows(rows) ==
    IF rows = <<>> THEN <<>> ELSE GPParseRow(Head(rows)) \o GPParseRows(Tail(rows))

\* _parsear_lineas
parsear_lineas(ws) == GPParseRows(agrupar_por_filas(ws))

\* _es_ref
es_ref(t) ==
    /\ FullMatchUpperAlnum5(t)
    /\ \E i \in 1..Len(t) : IsAsciiUpper(Char(t, i))
    /\ \E i \in 1..Len(t) : IsDigit(Char(t, i))

\* t.strip("*")
RECURSIVE StripStars(_)
StripStars(s) ==
    IF s = "" THEN ""
    ELSE IF Head(s) = "*" THEN StripStars(Tail(s))
    ELSE IF Char(s, Len(s)) = "*" THEN StripStars(SubSeq(s, 1, Len(s) - 1))
    ELSE s

\* the length of the run of [A-Z0-9] that ends s
RECURSIVE UpperAlnumTail(_)
UpperAlnumTail(s) ==
    IF s # "" /\ (IsDigit(Char(s, Len(s))) \/ IsAsciiUpper(Char(s, Len(s))))
    THEN 1 + UpperAlnumTail(SubSeq(s, 1, Len(s) - 1)) ELSE 0

\* re.search(r"([A-Z0-9]{5,})$", s): the match, or "" when there is none
SearchUpperAlnum5End(s) ==
    IF UpperAlnumTail(s) >= 5 THEN SubSeq(s, Len(s) - UpperAlnumTail(s) + 1, Len(s))
    ELSE ""

\* re.sub(r"^\d+", "", s)
DropLeadingDigits(s) == SubSeq(s, DigitRun(s, 1) + 1, Len(s))

\* _ref_albaran: a reference near a word that starts with "albar", else a
\* word with an asterisk that ends in a reference
ref_albaran_gp(ws) ==
    LET idxs == {i \in 1..Len(ws) : StartsWith(Lower(ws[i].text), "albar")}
        \* (i, j) pairs in the order the two loops visit them
        near == {<<i, j>> \in idxs \X (1..Len(ws)) :
                    /\ j >= Max(1, i - 5) /\ j <= Min(Len(ws), i + 5)
                    /\ es_ref(ws[j].text)}
        starred == {i \in 1..Len(ws) :
                      /\ InStr("*", ws[i].text)
                      /\ SearchUpperAlnum5End(StripStars(ws[i].text)) # ""
                      /\ es_ref(SearchUpperAlnum5End(StripStars(ws[i].text)))}
    IN IF near # {}
       THEN LET first == CHOOSE p \in near :
                    \A q \in near : p[1] < q[1] \/ (p[1] = q[1] /\ p[2] <= q[2])
            IN ws[first[2]].text
       ELSE IF starred # {}
       THEN DropLeadingDigits(
                SearchUpperAlnum5End(StripStars(FirstAt(ws, starred)[1].text)))
       ELSE ""

\* _detectar_destino
detectar_destino(texto) ==
    LET t == ReplaceChar(texto, "\n", " ")
    IN IF Contains(t, "Ctra. Aeropuerto, Km. 4") THEN "Central"
       ELSE IF Contains(t, "Calle Ingeniero Ribera") THEN "Amargacena"
       ELSE IF Contains(t, "MIRALBAIDA") THEN "Miralbaida"
       ELSE ""

\* a plausible slip: the phrase is searched without removing the accents
contiene_aportacion_plain(texto) ==
    Contains(Lower(texto), "aportacion al servicio de reparto")

\* _contiene_aportacion
contiene_aportacion(texto) ==
    Contains(Lower(StripAccents(texto)), "aportacion al servicio de reparto")

-----------------------------------------------------------------------------
(* Vendor C (varona.py): one row of parsear.                               *)

PROVEEDOR_VARONA == "VARONA 2008, S.L."

\* NUM_RE.match(t).group(0) for NUM_RE = -?\d+,\d{2}: the matched prefix of
\* t, or "" when t does not start with a number
MatchNumPrefix(t) ==
    LET b == IF StartsWith(t, "-") THEN 2 ELSE 1
        n == DigitRun(t, b)
        sep == b + n
    IN IF /\ n >= 1
          /\ sep + 2 <= Len(t)
          /\ Char(t, sep) = ","
          /\ IsDigit(Char(t, sep + 1)) /\ IsDigit(Char(t, sep + 2))
       THEN SubSeq(t, 1, sep + 2)
       ELSE ""

\* NUM_RE.fullmatch(t)
FullMatchNum2(t) == t # "" /\ MatchNumPrefix(t) = t

\* where a final "-\d+,\d{2}" of t starts, 0 when t does not end in one
TrailingNegStart(t) ==
    LET n == Len(t)
        run == IF n >= 4 /\ Char(t, n - 2) = "," /\ IsDigit(Char(t, n - 1))
                  /\ IsDigit(Char(t, n))
               THEN CHOOSE k \in 0..(n - 3) :
                        /\ \A j \in (n - 2 - k)..(n - 3) : IsDigit(Char(t, j))
                        /\ (n - 3 - k >= 1 => ~IsDigit(Char(t, n - 3 - k)))
               ELSE 0
        h == n - 3 - run
    IN IF run >= 1 /\ h >= 1 /\ Char(t, h) = "-" THEN h ELSE 0

\* re.match(r"^(.*?)-(\d+,\d{2})$", t).group(2), or "" when there is no match
TrailingNegDigits(t) ==
    IF TrailingNegStart(t) > 0 THEN SubSeq(t, TrailingNegStart(t) + 1, Len(t)) ELSE ""

\* re.sub(r"-\d+,\d{2}$", "", t)
CutTrailingNeg(t) ==
    IF TrailingNegStart(t) > 0 THEN SubSeq(t, 1, TrailingNegStart(t) - 1) ELSE t

\* int(s) for a string of digits
RECURSIVE StrToNat(_)
StrToNat(s) ==
    IF s = "" THEN 0
    ELSE 10 * StrToNat(SubSeq(s, 1, Len(s) - 1)) + (IndexIn(Char(s, Len(s)), Digits) - 1)

\* str(n) for n >= 0
RECURSIVE NatToStr(_)
NatToStr(n) ==
    IF n < 10 THEN Char(Digits, n + 1)
    ELSE NatToStr(n \div 10) \o Char(Digits, (n % 10) + 1)

\* float(val.replace(",", ".")) for val = -?\d+,\d{2}, in hundredths
Hundredths(val) ==
    LET neg == StartsWith(val, "-")
        body == IF neg THEN SubSeq(val, 2, Len(val)) ELSE val
        n == Len(body)
        h == 100 * StrToNat(SubSeq(body, 1, n - 3)) + StrToNat(SubSeq(body, n - 1, n))
    IN IF neg THEN -h ELSE h

\* f"{v:.2f}" for v = h hundredths; minus is the sign of a negative zero
FormatHundredths(h, minus) ==
    LET a == Abs(h)
        frac == a % 100
    IN (IF h < 0 \/ (h = 0 /\ minus) THEN "-" ELSE "")
       \o NatToStr(a \div 100) \o "."
       \o (IF frac < 10 THEN "0" ELSE "") \o NatToStr(frac)

\* round(n / d) to the nearest integer for d > 0, a half away from zero;
\* the source rounds the binary float, which may differ at an exact half
RoundDiv(n, d) ==
    IF n >= 0 THEN (2 * n + d) \div (2 * d) ELSE -((2 * (-n) + d) \div (2 * d))

\* a plausible slip: the two discounts are added
AddedHundredths(d1, d2) == d1 + d2

\* 100 * (1 - (1 - d1/100) * (1 - d2/100)) in hundredths, d1 and d2 in
\* hundredths: d1 + d2 - d1*d2/10000
CompoundHundredths(d1, d2) == RoundDiv(10000 * (d1 + d2) - d1 * d2, 10000)

\* nums of a row: the indices of the words that start with a number
VNumIdx(f) == {i \in 1..Len(f) : MatchNumPrefix(f[i].text) # ""}

VCodeIdx(f) ==
    {i \in 1..Len(f) :
        f[i].x0 >= 30 /\ f[i].x0 <= 80 /\ FullMatchUpperAlnum5(f[i].text)}

\* the index of price_tok: the rightmost number in [300,450], else the
\* rightmost number of the row (the first of them when several share an x0)
VPriceIdx(f) ==
    LET cand == {i \in VNumIdx(f) : f[i].x0 >= 300 /\ f[i].x0 <= 450}
        from == IF cand # {} THEN cand ELSE VNumIdx(f)
    IN CHOOSE i \in from :
          /\ \A j \in from : f[j].x0 <= f[i].x0
          /\ \A j \in from : f[j].x0 = f[i].x0 => i <= j

\* a plausible slip: the quantity is the first number of the row, whatever
\* its place
VQtyIdxAnyNumber(f, code_i) ==
    IF VNumIdx(f) # {} THEN CHOOSE i \in VNumIdx(f) : \A j \in VNumIdx(f) : i <= j
    ELSE 0

\* the index of qty_candidate, 0 for None
VQtyIdx(f, code_i) ==
    LET inband == {i \in VNumIdx(f) : f[i].x0 >= 100 /\ f[i].x0 <= 300}
        between == {i \in VNumIdx(f) :
                      f[code_i].x0 < f[i].x0 /\ f[i].x0 < f[VPriceIdx(f)].x0}
    IN IF inband # {} THEN CHOOSE i \in inband : \A j \in inband : i <= j
       ELSE IF between # {} THEN CHOOSE i \in between : \A j \in between : i <= j
       ELSE 0

\* a plausible slip: a detached "-" is not joined to the number
join_nothing(f, tok) == tok.text

\* _join_hyphen_number_if_adjacent
join_hyphen_number_if_adjacent(f, tok) ==
    IF \E i \in 1..Len(f) :
           f[i].text = "-" /\ tok.x0 - f[i].x0 > 0 /\ tok.x0 - f[i].x0 <= 10
    THEN "-" \o tok.text
    ELSE tok.text

\* tokens_between: the indices after the code whose x0 is left of the price
VBetweenIdx(f, code_i) ==
    {i \in (code_i + 1)..Len(f) : f[i].x0 < f[VPriceIdx(f)].x0}

VQty(f, code_i) ==
    LET q == VQtyIdx(f, code_i)
        glued == {i \in VBetweenIdx(f, code_i) : TrailingNegStart(f[i].text) > 0}
    IN ReplaceChar(
           IF q # 0 THEN join_hyphen_number_if_adjacent(f, f[q])
           ELSE IF glued # {}
                THEN "-" \o TrailingNegDigits(
                         f[CHOOSE i \in glued : \A j \in glued : j <= i].text)
           ELSE "1,00",
           ",", ".")

\* a plausible slip: the numbers above 100 are not left out
VDtoIdxUnfiltered(f) ==
    {i \in VNumIdx(f) : f[i].x0 >= 450 /\ f[i].x0 <= 520}

\* dto_vals: the values <= 100 of the numbers in [450,520], left to right
VDtoIdx(f) ==
    {i \in VNumIdx(f) :
        /\ f[i].x0 >= 450 /\ f[i].x0 <= 520
        /\ Hundredths(MatchNumPrefix(f[i].text)) <= 10000}

VDto(f) ==
    LET vals == SubSeqAt(f, VDtoIdx(f))
        n == Len(vals)
        H(i) == Hundredths(MatchNumPrefix(vals[i].text))
    IN IF n = 0 THEN "0.00"
       ELSE IF n = 1
            THEN FormatHundredths(H(1), StartsWith(vals[1].text, "-"))
       ELSE FormatHundredths(CompoundHundredths(H(n - 1), H(n)), FALSE)

VDesc(f, code_i) ==
    LET keep == {i \in VBetweenIdx(f, code_i) :
                    /\ f[i].text # "-"
                    /\ ~FullMatchNum2(f[i].text)
                    /\ CutTrailingNeg(f[i].text) # ""}
        parts == [k \in 1..Cardinality(keep) |->
                     CutTrailingNeg(SubSeqAt(f, keep)[k].text)]
    IN Strip(JoinWith(parts, " "))

\* The body of `for fila in agrupar_filas(words)` on one row: <<>> when the
\* row is skipped (continue), <<line>> when a line is appended.
VaronaParseRow(fila0) ==
    LET f == SortByX0(fila0)
        codes == VCodeIdx(f)
        code_i == CHOOSE i \in codes : \A j \in codes : i <= j
        raw == f[code_i].text
    IN IF codes = {} THEN <<>>
       ELSE IF VNumIdx(f) = {} THEN <<>>
       ELSE <<[cod |-> IF Len(raw) > 3 THEN SubSeq(raw, 4, Len(raw)) ELSE raw,
               desc |-> VDesc(f, code_i),
               qty |-> VQty(f, code_i),
               price |-> ReplaceChar(MatchNumPrefix(f[VPriceIdx(f)].text), ",", "."),
               dto |-> VDto(f)]>>

RECURSIVE VaronaParseRows(_)
VaronaParseRows(rows) ==
    IF rows = <<>> THEN <<>>
    ELSE VaronaParseRow(Head(rows)) \o VaronaParseRows(Tail(rows))

\* parsear
parsear(ws) == VaronaParseRows(agrupar_filas(ws))

\* text.splitlines() for a text whose lines end in "\n"
RECURSIVE SplitLines(_)
SplitLines(t) ==
    IF t = "" THEN <<>>
    ELSE LET k == FirstIndexOf(t, "\n")
         IN IF k = 0 THEN <<t>>
            ELSE <<SubSeq(t, 1, k - 1)>> \o SplitLines(SubSeq(t, k + 1, Len(t)))

IsSpace(c) == c \in {" ", "\n", "\t"}

\* the length of the run of white space of s that starts at position i
RECURSIVE SpaceRun(_, _)
SpaceRun(s, i) ==
    IF i <= Len(s) /\ IsSpace(Char(s, i)) THEN 1 + SpaceRun(s, i + 1) ELSE 0

\* ref_albaran of varona.py: re.search(r"VA02\s+(\d{2}\.\d{3})", txt)
ref_albaran_varona(t) ==
    LET At(i) ==
            LET d == i + 4 + SpaceRun(t, i + 4)
            IN /\ Slice(t, i, i + 3) = "VA02"
               /\ SpaceRun(t, i + 4) >= 1
               /\ d + 5 <= Len(t)
               /\ IsDigit(Char(t, d)) /\ IsDigit(Char(t, d + 1))
               /\ Char(t, d + 2) = "."
               /\ DigitRun(t, d + 3) >= 3
        hitsAt == {i \in 1..Len(t) : At(i)}
    IN IF hitsAt = {} THEN ""
       ELSE LET i == CHOOSE h \in hitsAt : \A g \in hitsAt : h <= g
                d == i + 4 + SpaceRun(t, i + 4)
            IN "VA02" \o SubSeq(t, d, d + 1) \o SubSeq(t, d + 3, d + 5)

\* ALMACEN_MAP of varona.py, in insertion order
ALMACEN_KEYS == <<"CENTRAL", "MIRALBAIDA", "AMARGACENA">>
ALMACEN_NAMES == <<"Central", "Miralbaida", "Amargacena">>

\* the warehouse a line names: the last key of ALMACEN_MAP the stripped,
\* upper-cased line starts with ("" when none)
LineWarehouse(linea) ==
    LET up == Upper(Strip(linea))
        ks == {k \in 1..Len(ALMACEN_KEYS) : StartsWith(up, ALMACEN_KEYS[k])}
    IN IF ks = {} THEN ""
       ELSE ALMACEN_NAMES[CHOOSE k \in ks : \A j \in ks : j <= k]

\* a plausible slip: the first line that names a warehouse wins
detectar_almacen_first(t) ==
    LET ls == SplitLines(t)
        named == {i \in 1..Len(ls) : LineWarehouse(ls[i]) # ""}
    IN IF Contains(t, "Ctra. Aeropuerto, Km. 4") THEN "Central"
       ELSE IF named # {}
            THEN LineWarehouse(ls[CHOOSE i \in named : \A j \in named : i <= j])
       ELSE ""

\* detectar_almacen
detectar_almacen(t) ==
    LET ls == SplitLines(t)
        named == {i \in 1..Len(ls) : LineWarehouse(ls[i]) # ""}
        inText == {k \in 1..Len(ALMACEN_KEYS) : Contains(Upper(t), ALMACEN_KEYS[k])}
    IN IF Contains(t, "Ctra. Aeropuerto, Km. 4") THEN "Central"
       ELSE IF named # {}
            THEN LineWarehouse(ls[CHOOSE i \in named : \A j \in named : j <= i])
       ELSE IF inText # {}
            THEN ALMACEN_NAMES[CHOOSE k \in inText : \A j \in inText : k <= j]
       ELSE ""

\* the surcharge test of Varona.parse on texto.casefold()
varona_aportacion(texto) ==
    \/ Contains(Lower(texto), "aportación al servicio de reparto")
    \/ Contains(Lower(texto), "aportacion al servicio de reparto")

-----------------------------------------------------------------------------
(* Vendor B (michelin.py).  The text is a sequence of lines, none empty or  *)
(* padded, shorter in all than the 1000 characters the backward scan reads; *)
(* a line carries at most one "CAI : <code>" marker, which ends the line.   *)

SUPPLIER_NAME == "MICHELIN ESPAÑA PORTUGAL, S.A."

\* \w
IsWordChar(c) ==
    c # "" /\ (IsAsciiAlnum(c) \/ c = "_" \/ InStr(c, AccentLower) \/ InStr(c, AccentUpper))

\* the length of the run of characters of the string set that starts at i
RECURSIVE RunOf(_, _, _)
RunOf(s, i, set) ==
    IF i <= Len(s) /\ InStr(Char(s, i), set) THEN 1 + RunOf(s, i + 1, set) ELSE 0

\* the length of the run of \W characters that starts at i
RECURSIVE NonWordRun(_, _)
NonWordRun(s, i) ==
    IF i <= Len(s) /\ ~IsWordChar(Char(s, i)) THEN 1 + NonWordRun(s, i + 1) ELSE 0

CaiCodeChars == Digits \o UpperLetters \o LowerLetters \o "-./_"
RefCodeChars == Digits \o UpperLetters \o LowerLetters \o "-/"
UpperAlnumChars == Digits \o UpperLetters

\* _norm_ws for a line without non-breaking spaces: runs of blanks and
\* tabs become one blank, then strip
RECURSIVE SqueezeBlanks(_)
SqueezeBlanks(s) ==
    IF s = "" THEN ""
    ELSE IF Head(s) \in {" ", "\t"}
         THEN " " \o SqueezeBlanks(SubSeq(s, 1 + RunOf(s, 1, " \t"), Len(s)))
    ELSE Head(s) \o SqueezeBlanks(Tail(s))

norm_ws(s) == Strip(SqueezeBlanks(s))

\* where the code of a marker CAI\s*:\s*([A-Z0-9\-\./_]+) that starts at i
\* starts, 0 when no marker starts at i (IGNORECASE)
CaiCodeStart(ln, i) ==
    LET c == i + 3 + SpaceRun(ln, i + 3)
        k == c + 1 + SpaceRun(ln, c + 1)
    IN IF /\ Upper(Slice(ln, i, i + 2)) = "CAI"
          /\ Char(ln, c) = ":"
          /\ RunOf(ln, k, CaiCodeChars) >= 1
       THEN k ELSE 0

\* where the first marker of a line starts, 0 when the line has none
MarkerPos(ln) ==
    LET at == {i \in 1..Len(ln) : CaiCodeStart(ln, i) > 0}
    IN IF at = {} THEN 0 ELSE CHOOSE i \in at : \A j \in at : i <= j

MarkerCode(ln) ==
    LET k == CaiCodeStart(ln, MarkerPos(ln))
    IN Slice(ln, k, k + RunOf(ln, k, CaiCodeChars) - 1)

\* the lines after line i that carry a marker
MarkersAfter(L, i) == {j \in (i + 1)..Len(L) : MarkerPos(L[j]) > 0}

\* \d+(?:[.,]\d+)? on a whole line
IsPlainNumber(ln) ==
    LET n == DigitRun(ln, 1)
    IN /\ n >= 1
       /\ \/ n = Len(ln)
          \/ /\ Char(ln, n + 1) \in {".", ","}
             /\ DigitRun(ln, n + 2) >= 1
             /\ n + 1 + DigitRun(ln, n + 2) = Len(ln)

EndsWith(s, suffix) ==
    Len(suffix) <= Len(s) /\ SubSeq(s, Len(s) - Len(suffix) + 1, Len(s)) = suffix

\* whether pat1 (Caso A) matches with its CANTIDAD on line h: the next line
\* is the quantity, the description starts on the line after it and the
\* first marker after at least one character of description closes it
Pat1Ok(L, h) ==
    /\ h + 2 <= Len(L)
    /\ EndsWith(Upper(L[h]), "CANTIDAD")
    /\ IsPlainNumber(L[h + 1])
    /\ (MarkerPos(L[h + 2]) > 1 \/ MarkersAfter(L, h + 2) # {})

\* the line whose marker closes the match that starts on line h
Pat1MarkerLine(L, h) ==
    IF MarkerPos(L[h + 2]) > 1 THEN h + 2
    ELSE CHOOSE j \in MarkersAfter(L, h + 2) : \A k \in MarkersAfter(L, h + 2) : j <= k

Pat1Item(L, h) ==
    [producto |-> MarkerCode(L[Pat1MarkerLine(L, h)]),
     descripcion |->
        norm_ws(IF MarkerPos(L[h + 2]) > 1
                THEN Slice(L[h + 2], 1, MarkerPos(L[h + 2]) - 1)
                ELSE L[h + 2]),
     cantidad |-> L[h + 1]]

\* pat1.finditer(txt) from line pos on: the matches do not overlap
RECURSIVE Pat1Items(_, _)
Pat1Items(L, pos) ==
    LET H == {h \in pos..Len(L) : Pat1Ok(L, h)}
    IN IF H = {} THEN <<>>
       ELSE LET h == CHOOSE x \in H : \A y \in H : x <= y
            IN <<Pat1Item(L, h)>> \o Pat1Items(L, Pat1MarkerLine(L, h) + 1)

\* re.search(r"[A-Za-zÁÉÍÓÚÜÑáéíóúüñ]", ln)
HasLetter(ln) ==
    \E i \in 1..Len(ln) :
        \/ IsAsciiUpper(Char(ln, i)) \/ IsAsciiLower(Char(ln, i))
        \/ InStr(Char(ln, i), AccentLower) \/ InStr(Char(ln, i), AccentUpper)

\* re.search(r"\b(\d{1,3})\b", ln).group(1), "" when there is no match
SearchSmallInt(ln) ==
    LET at == {i \in 1..Len(ln) :
                  /\ IsDigit(Char(ln, i))
                  /\ ~IsWordChar(Char(ln, i - 1))
                  /\ DigitRun(ln, i) <= 3
                  /\ ~IsWordChar(Char(ln, i + DigitRun(ln, i)))}
    IN IF at = {} THEN ""
       ELSE LET i == CHOOSE x \in at : \A y \in at : x <= y
            IN Slice(ln, i, i + DigitRun(ln, i) - 1)

\* \bword\b somewhere in ln
ContainsWord(ln, word) ==
    \E i \in 1..(Len(ln) - Len(word) + 1) :
        /\ SubSeq(ln, i, i + Len(word) - 1) = word
        /\ ~IsWordChar(Char(ln, i - 1))
        /\ ~IsWordChar(Char(ln, i + Len(word)))

\* \b\d{3}/\d{2}\s*(?:R|ZR)?\s*\d{2}\b at position i (IGNORECASE)
TyreSizeAt(ln, i) ==
    LET p1 == i + 6 + SpaceRun(ln, i + 6)
        p2 == IF Upper(Slice(ln, p1, p1 + 1)) = "ZR" THEN p1 + 2
              ELSE IF Upper(Char(ln, p1)) = "R" THEN p1 + 1
              ELSE p1
        p3 == p2 + SpaceRun(ln, p2)
    IN /\ ~IsWordChar(Char(ln, i - 1))
       /\ DigitRun(ln, i) = 3
       /\ Char(ln, i + 3) = "/"
       /\ IsDigit(Char(ln, i + 4)) /\ IsDigit(Char(ln, i + 5))
       /\ IsDigit(Char(ln, p3)) /\ IsDigit(Char(ln, p3 + 1))
       /\ ~IsWordChar(Char(ln, p3 + 2))

TyreNames == {"PILOT", "ENERGY", "PRIMACY", "ALPIN", "CROSSCLIMATE"}

\* _looks_like_tyre
looks_like_tyre(ln) ==
    \/ \E i \in 1..Len(ln) : TyreSizeAt(ln, i)
    \/ ContainsWord(ln, "TL")
    \/ \E w \in TyreNames : ContainsWord(Upper(ln), w)

SkipTokens == {"MI", "MICHELIN", "LP", "MARCA", "CAR"}

\* Caso B for the marker of line j: the item found by scanning backwards
\* through the lines before the marker
GenericItem(L, j) ==
    LET pre == norm_ws(Slice(L[j], 1, MarkerPos(L[j]) - 1))
        raw == [i \in 1..(j - 1) |-> norm_ws(L[i])]
              \o (IF pre = "" THEN <<>> ELSE <<pre>>)
        win == SubSeqAt(raw, {i \in 1..Len(raw) : raw[i] # ""})
        heads == {i \in 1..Len(win) : Contains(Upper(win[i]), "CANTIDAD")}
        head_idx == IF heads = {} THEN 1
                    ELSE CHOOSE i \in heads : \A k \in heads : k <= i
        scan == head_idx..Len(win)
        numeric == {i \in scan : ~HasLetter(win[i]) /\ SearchSmallInt(win[i]) # ""}
        usable == {i \in scan : Upper(win[i]) \notin SkipTokens /\ Len(win[i]) > 2}
        tyres == {i \in usable : looks_like_tyre(win[i])}
        Last(I) == CHOOSE i \in I : \A k \in I : k <= i
    IN [producto |-> MarkerCode(L[j]),
        descripcion |-> IF tyres # {} THEN win[Last(tyres)]
                        ELSE IF usable # {} THEN win[Last(usable)]
                        ELSE "SIN DESCRIPCIÓN",
        cantidad |-> IF numeric # {} THEN SearchSmallInt(win[Last(numeric)])
                     ELSE "1"]

GenericItems(L) ==
    LET M == MarkersAfter(L, 0)
        idx == SubSeqAt([i \in 1..Len(L) |-> i], M)
    IN [k \in 1..Len(idx) |-> GenericItem(L, idx[k])]

\* a plausible slip: only the generic scan runs
extract_items_generic_only(L) == GenericItems(L)

\* _extract_items_from_text: the matches of Caso A, then one item per marker
extract_items_from_text(L) == Pat1Items(L, 1) \o GenericItems(L)

\* ALMACEN_MAP of michelin.py
MichelinAlmacen(code) ==
    CASE code = "H0064309" -> "Central"
      [] code = "H0064310" -> "Miralbaida"
      [] code = "H0123390" -> "Amargacena"
      [] OTHER -> code

\* ENTREGAS\s+DIARIAS somewhere in ln (IGNORECASE)
HasEntregasDiarias(ln) ==
    \E i \in 1..Len(ln) :
        /\ Upper(Slice(ln, i, i + 7)) = "ENTREGAS"
        /\ SpaceRun(ln, i + 8) >= 1
        /\ Upper(Slice(ln, i + 8 + SpaceRun(ln, i + 8),
                       i + 14 + SpaceRun(ln, i + 8))) = "DIARIAS"

\* \bH\d{7}\b in ln: the first match, "" when there is none
SearchHCode(ln) ==
    LET at == {i \in 1..Len(ln) :
                  /\ Char(ln, i) = "H"
                  /\ ~IsWordChar(Char(ln, i - 1))
                  /\ DigitRun(ln, i + 1) = 7
                  /\ ~IsWordChar(Char(ln, i + 8))}
    IN IF at = {} THEN ""
       ELSE LET i == CHOOSE x \in at : \A y \in at : x <= y IN Slice(ln, i, i + 7)

\* _extract_entregar_a
extract_entregar_a(L) ==
    LET ent == {i \in 1..Len(L) : HasEntregasDiarias(L[i])}
        first == CHOOSE i \in ent : \A k \in ent : i <= k
        below == IF ent = {} THEN {}
                 ELSE {i \in (first + 1)..Len(L) :
                          Upper(Char(L[i], 1)) = "H" /\ DigitRun(L[i], 2) >= 7}
        any == {i \in 1..Len(L) : SearchHCode(L[i]) # ""}
        code == IF below # {}
                THEN Slice(L[CHOOSE i \in below : \A k \in below : i <= k], 1, 8)
                ELSE IF any # {}
                THEN SearchHCode(L[CHOOSE i \in any : \A k \in any : i <= k])
                ELSE ""
    IN MichelinAlmacen(code)

\* N\W*de\W*albar[aá]n at the end of ln (IGNORECASE)
EndsWithNDeAlbaran(ln) ==
    \E p \in 1..Len(ln) :
        LET q == p + 1 + NonWordRun(ln, p + 1)
            r == q + 2 + NonWordRun(ln, q + 2)
        IN /\ Upper(Char(ln, p)) = "N"
           /\ Upper(Slice(ln, q, q + 1)) = "DE"
           /\ Upper(Slice(ln, r, r + 4)) = "ALBAR"
           /\ Upper(Char(ln, r + 5)) \in {"A", "Á"}
           /\ Upper(Char(ln, r + 6)) = "N"
           /\ r + 6 = Len(ln)

\* \b1[A-Z0-9]{7,8}\b in ln: the first match, "" when there is none
SearchOneCode(ln) ==
    LET at == {i \in 1..Len(ln) :
                  /\ Char(ln, i) = "1"
                  /\ ~IsWordChar(Char(ln, i - 1))
                  /\ RunOf(ln, i + 1, UpperAlnumChars) \in {7, 8}
                  /\ ~IsWordChar(Char(ln, i + 1 + RunOf(ln, i + 1, UpperAlnumChars)))}
    IN IF at = {} THEN ""
       ELSE LET i == CHOOSE x \in at : \A y \in at : x <= y
            IN Slice(ln, i, i + RunOf(ln, i + 1, UpperAlnumChars))

\* _extract_ref_albaran
extract_ref_albaran(L) ==
    LET titled == {i \in 1..(Len(L) - 1) :
                      EndsWithNDeAlbaran(L[i]) /\ RunOf(L[i + 1], 1, RefCodeChars) >= 1}
        any == {i \in 1..Len(L) : SearchOneCode(L[i]) # ""}
    IN IF titled # {}
       THEN LET i == CHOOSE x \in titled : \A y \in titled : x <= y
            IN Slice(L[i + 1], 1, RunOf(L[i + 1], 1, RefCodeChars))
       ELSE IF any # {}
       THEN SearchOneCode(L[CHOOSE i \in any : \A k \in any : i <= k])
       ELSE ""

-----------------------------------------------------------------------------
(* Tables (pandas DataFrame) and the table each adapter's parse() builds.  *)

COL_PROVEEDOR == "Proveedor"
COL_REF == "Referencia de proveedor"
COL_PRODUCTO == "Líneas del pedido/Producto"
COL_DESCRIPCION == "Líneas del pedido/Descripción"
COL_CANTIDAD == "Líneas del pedido/Cantidad"
COL_PRECIO == "Líneas del pedido/Precio unitario"
COL_DESCUENTO == "Líneas del pedido/(%) Descuento"
COL_ENTREGAR == "Entregar a"

\* HEAD: the header every adapter declares
HEAD ==
    <<COL_PROVEEDOR, COL_REF, COL_PRODUCTO, COL_DESCRIPCION, COL_CANTIDAD,
      COL_PRECIO, COL_DESCUENTO, COL_ENTREGAR>>

\* the keys of df_lines, in the order of the dict literal
LINE_COLS == <<COL_PRODUCTO, COL_DESCRIPCION, COL_CANTIDAD, COL_PRECIO, COL_DESCUENTO>>

NaN == "<NaN>"

APORTACION == "APORTACION AL SERVICIO DE REPARTO"

Range(seq) == {seq[i] : i \in 1..Len(seq)}

\* one row of df_lines
LineRow(prod, desc, qty, price, dto) ==
    [c \in Range(LINE_COLS) |->
        CASE c = COL_PRODUCTO -> prod
          [] c = COL_DESCRIPCION -> desc
          [] c = COL_CANTIDAD -> qty
          [] c = COL_PRECIO -> price
          [] c = COL_DESCUENTO -> dto]

\* pd.concat([a, b], ignore_index=True): the union of the columns, a's
\* first; a cell of a column the frame did not have is NaN
Concat(a, b) ==
    LET cols == a.cols \o SubSeqAt(b.cols, {i \in 1..Len(b.cols) : b.cols[i] \notin Range(a.cols)})
        Fill(t) == [r \in 1..Len(t.rows) |->
                       [c \in Range(cols) |->
                           IF c \in Range(t.cols) THEN t.rows[r][c] ELSE NaN]]
    IN [cols |-> cols, rows |-> Fill(a) \o Fill(b)]

\* df[col] = val for a scalar val
AssignCol(t, col, val) ==
    [cols |-> IF col \in Range(t.cols) THEN t.cols ELSE Append(t.cols, col),
     rows |-> [r \in 1..Len(t.rows) |->
                  [c \in Range(t.cols) \cup {col} |->
                      IF c = col THEN val ELSE t.rows[r][c]]]]

\* for col in HEAD: if col not in df.columns: df[col] = ""
RECURSIVE FillMissing(_, _)
FillMissing(t, head) ==
    IF head = <<>> THEN t
    ELSE FillMissing(IF Head(head) \in Range(t.cols) THEN t
                     ELSE AssignCol(t, Head(head), ""),
                     Tail(head))

\* a plausible slip: the frame is returned with its columns as they came
KeepCols(t, head) == t

\* df[HEAD]
SelectCols(t, head) ==
    [cols |-> head,
     rows |-> [r \in 1..Len(t.rows) |-> [c \in Range(head) |-> t.rows[r][c]]]]

\* a plausible slip: the code is bracketed without the separating blank
CompositeNoBlank(cod, desc) == "[" \o cod \o "]" \o desc

\* f"[{r['cod']}] {r['desc']}"
Composite(cod, desc) == "[" \o cod \o "] " \o desc

\* the row both adapters append when the document names the delivery
\* surcharge
SurchargeFrame(qty) ==
    [cols |-> LINE_COLS,
     rows |-> <<LineRow(APORTACION, APORTACION, qty, "2.67", "0.00")>>]

\* the last steps of parse(): the three document columns, then HEAD
WithHeader(df_lines, proveedor, ref, destino) ==
    SelectCols(
        FillMissing(
            AssignCol(AssignCol(AssignCol(df_lines, COL_PROVEEDOR, proveedor),
                                COL_REF, ref),
                      COL_ENTREGAR, destino),
            HEAD),
        HEAD)

\* GrupoPenaAdapter.parse from df_lines on, for the lines found (not empty)
GPTable(ws, lin) ==
    LET texto == JoinWith(Texts(ws), " ")
        df_lines == [cols |-> LINE_COLS,
                     rows |-> [i \in 1..Len(lin) |->
                                  LineRow(Composite(lin[i].cod, lin[i].desc),
                                          lin[i].desc, lin[i].qty, lin[i].price,
                                          "0.00")]]
    IN WithHeader(IF contiene_aportacion(texto)
                  THEN Concat(df_lines, SurchargeFrame("1"))
                  ELSE df_lines,
                  PROVEEDOR_GP, ref_albaran_gp(ws), detectar_destino(texto))

\* Varona.parse from df_lines on, for the lines found (not empty)
VaronaTable(ws, lin) ==
    LET texto == JoinWith(Texts(ws), "\n")
        df_lines == [cols |-> LINE_COLS,
                     rows |-> [i \in 1..Len(lin) |->
                                  LineRow(Composite(lin[i].cod, lin[i].desc),
                                          lin[i].desc, lin[i].qty, lin[i].price,
                                          lin[i].dto)]]
    IN WithHeader(IF varona_aportacion(texto)
                  THEN Concat(df_lines, SurchargeFrame("1.00"))
                  ELSE df_lines,
                  PROVEEDOR_VARONA, ref_albaran_varona(texto),
                  detectar_almacen(texto))

\* qty_map as a sequence of [cai, qty], one entry per CAI
QtyKeys(map) == {map[i].cai : i \in 1..Len(map)}
QtyOf(map, cai) == map[CHOOSE i \in 1..Len(map) : map[i].cai = cai].qty

\* if qty_map: for it in items: if cai in qty_map: it[Cantidad] = qty_map[cai]
ApplyQtyMap(items, map) ==
    [i \in 1..Len(items) |->
        IF items[i].producto \in QtyKeys(map)
        THEN [items[i] EXCEPT !.cantidad = QtyOf(map, items[i].producto)]
        ELSE items[i]]

\* the item that stands for a document without detected lines
NoLinesItem ==
    [producto |-> "", descripcion |-> "NO SE DETECTARON LÍNEAS", cantidad |-> "1"]

\* a plausible slip: a document without items gives a table without rows
ItemsAsFound(items) == items

\* if not items: items = [placeholder]
ItemsOrPlaceholder(items) == IF items = <<>> THEN <<NoLinesItem>> ELSE items

\* Michelin.parse from the items on
MichelinTable(L, items) ==
    LET its == ItemsOrPlaceholder(items)
        row(it) == [c \in Range(HEAD) |->
                       CASE c = COL_PROVEEDOR -> SUPPLIER_NAME
                         [] c = COL_REF -> extract_ref_albaran(L)
                         [] c = COL_PRODUCTO -> it.producto
                         [] c = COL_DESCRIPCION -> it.descripcion
                         [] c = COL_CANTIDAD -> it.cantidad
                         [] c = COL_PRECIO -> ""
                         [] c = COL_DESCUENTO -> ""
                         [] c = COL_ENTREGAR -> extract_entregar_a(L)]
    IN SelectCols(FillMissing([cols |-> HEAD,
                               rows |-> [i \in 1..Len(its) |-> row(its[i])]],
                              HEAD),
                  HEAD)

-----------------------------------------------------------------------------
(* parse(pdf_path) of the three adapters.  A document is a choice of at    *)
(* most MaxChunks chunks of a vendor's page, kept in reading order; a      *)
(* chunk is a run of words (a line of text for Vendor B) that the          *)
(* extractor yields together.                                              *)

MaxChunks == 4

Wd(text, x0, top, id) == [text |-> text, x0 |-> x0, top |-> top, id |-> id]

\* a Vendor A page: two item rows (tops 200.0/200.5 and 220.0) and a footer
GPPool ==
    << <<Wd("ABC-1234", 40, 2000, 1)>>,
       <<Wd("FILTRO", 150, 2000, 2), Wd("ACEITE", 250, 2000, 3)>>,
       <<Wd("2,00", 320, 2005, 4)>>,
       <<Wd("9,99", 361, 2000, 5)>>,
       <<Wd("-", 475, 2000, 6)>>,
       <<Wd("15,50", 480, 2000, 7)>>,
       <<Wd("31,00", 530, 2000, 8)>>,
       <<Wd("h2o-A-7", 120, 2200, 9)>>,
       <<Wd("TUBO", 299, 2200, 10)>>,
       <<Wd("1.000", 300, 2200, 11)>>,
       <<Wd("-", 505, 2200, 12)>>,
       <<Wd("7,25", 510, 2200, 13)>>,
       <<Wd("Aportación", 40, 7000, 14), Wd("al", 95, 7000, 15),
         Wd("servicio", 110, 7000, 16), Wd("de", 150, 7000, 17),
         Wd("reparto", 165, 7000, 18)>>,
       <<Wd("Albarán", 400, 7200, 19), Wd("A12345", 450, 7200, 20)>>,
       <<Wd("Calle", 40, 7400, 21), Wd("Ingeniero", 70, 7400, 22),
         Wd("Ribera", 120, 7400, 23)>> >>

\* a Vendor C page: an item row, a totals row and a footer
VaronaPool ==
    << <<Wd("185420034", 35, 3000, 1)>>,
       <<Wd("ACEITE", 120, 3000, 2), Wd("5W30", 170, 3000, 3)>>,
       <<Wd("BOTE-1,00", 200, 3000, 4)>>,
       <<Wd("-", 252, 3000, 5)>>,
       <<Wd("2,00", 260, 3000, 6)>>,
       <<Wd("15,50", 400, 3000, 7)>>,
       <<Wd("65,00", 460, 3005, 8)>>,
       <<Wd("15,00", 490, 3000, 9)>>,
       <<Wd("10,85", 540, 3000, 10)>>,
       <<Wd("120,00", 455, 3000, 21)>>,
       <<Wd("10,00", 510, 3000, 22)>>,
       <<Wd("-5,00", 450, 3000, 25)>>,
       <<Wd("TOTAL", 40, 3300, 11)>>,
       <<Wd("99,50", 530, 3300, 12)>>,
       <<Wd("Aportación", 40, 7000, 13), Wd("al", 95, 7000, 14),
         Wd("servicio", 110, 7000, 15), Wd("de", 150, 7000, 16),
         Wd("reparto", 165, 7000, 17)>>,
       <<Wd("VA02", 400, 7200, 18), Wd("25.123", 440, 7200, 19)>>,
       <<Wd("CENTRAL", 40, 7400, 20)>>,
       <<Wd("MIRALBAIDA", 40, 7600, 23)>>,
       <<Wd("Amargacena:", 40, 7800, 24)>> >>

\* the text of a Vendor B document, line by line
MichelinPool ==
    <<"ENTREGAS DIARIAS", "H0064310", "N. de albarán", "1AB23456",
      "CANTIDAD", "4", "205/55 R16 91V TL PRIMACY", "MI", "CAI : 123456",
      "PILOT SPORT CAI : 654321", "CAI : 123456">>

\* what the layout pass may have read: nothing, or a quantity for one CAI
QtyMaps == {<<>>, <<[cai |-> "123456", qty |-> "8"]>>}

Choices(pool) == {I \in SUBSET (1..Len(pool)) : Cardinality(I) <= MaxChunks}

RECURSIVE Flatten(_)
Flatten(chunks) ==
    IF chunks = <<>> THEN <<>> ELSE Head(chunks) \o Flatten(Tail(chunks))

WordDocs(pool) == {Flatten(SubSeqAt(pool, I)) : I \in Choices(pool)}
LineDocs(pool) == {SubSeqAt(pool, I) : I \in Choices(pool)}

ParseInit ==
    /\ adapter \in Range(Registry)
    /\ palabras \in (CASE adapter = "grupo_pena" -> WordDocs(GPPool)
                       [] adapter = "varona" -> WordDocs(VaronaPool)
                       [] OTHER -> {<<>>})
    /\ m_lines \in (IF adapter = "michelin" THEN LineDocs(MichelinPool) ELSE {<<>>})
    /\ qty_map \in (IF adapter = "michelin" THEN QtyMaps ELSE {<<>>})
    /\ p_rows = <<>> /\ p_log = <<>> /\ lineas = <<>> /\ df = NoTable
    /\ raised = FALSE /\ p_pc = "start"

\* a plausible slip: the guard is missing and an empty table is built
NeverNoLines(lin) == FALSE

\* if not filas: raise ValueError(...)
NoLinesFound(lin) == lin = <<>>

\* palabras = _leer_palabras(pdfp); for fila in _agrupar_por_filas(words)
GPRead ==
    /\ p_pc = "start" /\ adapter = "grupo_pena"
    /\ p_rows' = agrupar_por_filas(palabras)
    /\ p_pc' = "rows"
    /\ UNCHANGED <<adapter, palabras, m_lines, qty_map, p_log, lineas, df, raised>>
    /\ UNCHANGED parseOthers

\* one iteration of the loop of _parsear_lineas
GPRow ==
    /\ p_pc = "rows" /\ adapter = "grupo_pena" /\ p_rows # <<>>
    /\ p_log' = Append(p_log, [fila |-> Head(p_rows), emit |-> GPParseRow(Head(p_rows))])
    /\ lineas' = lineas \o GPParseRow(Head(p_rows))
    /\ p_rows' = Tail(p_rows)
    /\ UNCHANGED <<adapter, palabras, m_lines, qty_map, df, raised, p_pc>>
    /\ UNCHANGED parseOthers

\* the rest of GrupoPenaAdapter.parse: raise, or build and return the table
GPBuild ==
    /\ p_pc = "rows" /\ adapter = "grupo_pena" /\ p_rows = <<>>
    /\ raised' = NoLinesFound(lineas)
    /\ df' = IF NoLinesFound(lineas) THEN NoTable ELSE GPTable(palabras, lineas)
    /\ p_pc' = "done"
    /\ UNCHANGED <<adapter, palabras, m_lines, qty_map, p_rows, p_log, lineas>>
    /\ UNCHANGED parseOthers

\* words = leer_pdf(pdfp); for fila in agrupar_filas(words)
VaronaRead ==
    /\ p_pc = "start" /\ adapter = "varona"
    /\ p_rows' = agrupar_filas(palabras)
    /\ p_pc' = "rows"
    /\ UNCHANGED <<adapter, palabras, m_lines, qty_map, p_log, lineas, df, raised>>
    /\ UNCHANGED parseOthers

\* one iteration of the loop of parsear
VaronaRow ==
    /\ p_pc = "rows" /\ adapter = "varona" /\ p_rows # <<>>
    /\ p_log' = Append(p_log, [fila |-> Head(p_rows),
                               emit |-> VaronaParseRow(Head(p_rows))])
    /\ lineas' = lineas \o VaronaParseRow(Head(p_rows))
    /\ p_rows' = Tail(p_rows)
    /\ UNCHANGED <<adapter, palabras, m_lines, qty_map, df, raised, p_pc>>
    /\ UNCHANGED parseOthers

\* the rest of Varona.parse: raise, or build and return the table
VaronaBuild ==
    /\ p_pc = "rows" /\ adapter = "varona" /\ p_rows = <<>>
    /\ raised' = NoLinesFound(lineas)
    /\ df' = IF NoLinesFound(lineas) THEN NoTable ELSE VaronaTable(palabras, lineas)
    /\ p_pc' = "done"
    /\ UNCHANGED <<adapter, palabras, m_lines, qty_map, p_rows, p_log, lineas>>
    /\ UNCHANGED parseOthers

\* Michelin.parse, steps 1 and 2: the items of the text, their quantities
\* replaced by the ones the layout pass read
MichelinItems ==
    /\ p_pc = "start" /\ adapter = "michelin"
    /\ lineas' = ApplyQtyMap(extract_items_from_text(m_lines), qty_map)
    /\ p_pc' = "build"
    /\ UNCHANGED <<adapter, palabras, m_lines, qty_map, p_rows, p_log, df, raised>>
    /\ UNCHANGED parseOthers

\* Michelin.parse, steps 3 and 4: the placeholder and the table
MichelinBuild ==
    /\ p_pc = "build" /\ adapter = "michelin"
    /\ df' = MichelinTable(m_lines, lineas)
    /\ p_pc' = "done"
    /\ UNCHANGED <<adapter, palabras, m_lines, qty_map, p_rows, p_log, lineas, raised>>
    /\ UNCHANGED parseOthers

Next ==
    \/ GPRead \/ GPRow \/ GPBuild
    \/ VaronaRead \/ VaronaRow \/ VaronaBuild
    \/ MichelinItems \/ MichelinBuild

Init == ParseInit /\ OthersIdle("parse")

Spec == Init /\ [][Next]_vars

-----------------------------------------------------------------------------
(* The numeric helpers of the core: parse_decimal (core/normalize.py) and  *)
(* _parse_discounts_chain (core/odoo_importer.py).                         *)
(*                                                                         *)
(* A float is a record [kind, neg, digits, exp].  kind "num" is the number *)
(* 0.digits x 10^exp, negated when neg: digits has no leading and no       *)
(* trailing zero, and zero is digits "" with exp 0 and neg FALSE (0.0 and  *)
(* -0.0 are equal in Python).  kind "inf" is +inf or -inf, kind "nan" is   *)
(* NaN.  A decimal numeral stands for the double nearest to it.            *)

\* s.replace(a, "") for a single character a
RECURSIVE RemoveChar(_, _)
RemoveChar(s, a) ==
    IF s = "" THEN ""
    ELSE (IF Head(s) = a THEN "" ELSE Head(s)) \o RemoveChar(Tail(s), a)

RECURSIVE StripLeadingZeros(_)
StripLeadingZeros(s) ==
    IF s # "" /\ Head(s) = "0" THEN StripLeadingZeros(Tail(s)) ELSE s

RECURSIVE StripTrailingZeros(_)
StripTrailingZeros(s) ==
    IF s # "" /\ Char(s, Len(s)) = "0"
    THEN StripTrailingZeros(SubSeq(s, 1, Len(s) - 1)) ELSE s

FloatZero == [kind |-> "num", neg |-> FALSE, digits |-> "", exp |-> 0]
FloatNaN == [kind |-> "nan", neg |-> FALSE, digits |-> "", exp |-> 0]
FloatInf(neg) == [kind |-> "inf", neg |-> neg, digits |-> "", exp |-> 0]

\* the largest double is 1.7976931348623157e308: a numeral that rounds to
\* 2^1024 or more is inf
MaxDoubleDigits == "17976931348623158"

\* a < b for two digit strings read as fractions 0.a and 0.b
RECURSIVE FracLess(_, _)
FracLess(a, b) ==
    IF b = "" THEN FALSE
    ELSE IF a = "" THEN StripLeadingZeros(b) # ""
    ELSE IF Head(a) = Head(b) THEN FracLess(Tail(a), Tail(b))
    ELSE IndexIn(Head(a), Digits) < IndexIn(Head(b), Digits)

\* the float written ip.fp x 10^e (ip and fp digit strings); a numeral below
\* half the smallest subnormal (about 2.5e-324) is zero
Float(neg, ip, fp, e) ==
    LET all == ip \o fp
        lead == StripLeadingZeros(all)
        ds == StripTrailingZeros(lead)
        ex == Len(ip) - (Len(all) - Len(lead)) + e
    IN IF ds = "" THEN FloatZero
       ELSE IF ex > 309 \/ (ex = 309 /\ ~FracLess(ds, MaxDoubleDigits))
            THEN FloatInf(neg)
       ELSE IF ex < -323 THEN FloatZero
       ELSE [kind |-> "num", neg |-> neg, digits |-> ds, exp |-> ex]

\* digits with single underscores between them: the digit groups float()
\* accepts
DigitGroup(s) ==
    /\ s # ""
    /\ \A i \in 1..Len(s) : IsDigit(Char(s, i)) \/ Char(s, i) = "_"
    /\ IsDigit(Char(s, 1)) /\ IsDigit(Char(s, Len(s)))
    /\ ~Contains(s, "__")

ValueError == [kind |-> "ValueError", neg |-> FALSE, digits |-> "", exp |-> 0]

\* float(t) for a string t of ASCII characters: the value, or ValueError
PyFloat(t0) ==
    LET t == Strip(t0)
        signed == Char(t, 1) \in {"+", "-"}
        neg == Char(t, 1) = "-"
        body == IF signed THEN Slice(t, 2, Len(t)) ELSE t
        low == Lower(body)
        ePos == FirstIndexOf(low, "e")
        mant == IF ePos = 0 THEN body ELSE Slice(body, 1, ePos - 1)
        expo == IF ePos = 0 THEN "" ELSE Slice(body, ePos + 1, Len(body))
        eSigned == Char(expo, 1) \in {"+", "-"}
        eNeg == Char(expo, 1) = "-"
        eDigits == IF eSigned THEN Slice(expo, 2, Len(expo)) ELSE expo
        eSig == StripLeadingZeros(RemoveChar(eDigits, "_"))
        \* an exponent of more than six digits is beyond every double
        eAbs == IF Len(eSig) > 6 THEN 1000000 ELSE StrToNat(eSig)
        dot == FirstIndexOf(mant, ".")
        ip == IF dot = 0 THEN mant ELSE Slice(mant, 1, dot - 1)
        fp == IF dot = 0 THEN "" ELSE Slice(mant, dot + 1, Len(mant))
        mantOk == IF dot = 0 THEN DigitGroup(ip)
                  ELSE /\ ip = "" \/ DigitGroup(ip)
                       /\ fp = "" \/ DigitGroup(fp)
                       /\ ip # "" \/ fp # ""
        expOk == ePos = 0 \/ DigitGroup(eDigits)
    IN IF low \in {"inf", "infinity"} THEN FloatInf(neg)
       ELSE IF low = "nan" THEN FloatNaN
       ELSE IF mantOk /\ expOk
            THEN Float(neg, RemoveChar(ip, "_"), RemoveChar(fp, "_"),
                       IF eNeg THEN -eAbs ELSE eAbs)
       ELSE ValueError

\* core/normalize.py: parse_decimal(s, default)
parse_decimal(s, default) ==
    IF s = "None" THEN default
    ELSE LET t == ReplaceChar(RemoveChar(Strip(s), "."), ",", ".")
             v == PyFloat(t)
         IN IF v = ValueError THEN default ELSE v

RECURSIVE Pow10(_)
Pow10(n) == IF n <= 0 THEN 1 ELSE 10 * Pow10(n - 1)

\* the length of the match of [-+]?\d+[.,]?\d* at position i of s, 0 if none
TokenLenAt(s, i) ==
    LET sg == IF Char(s, i) \in {"-", "+"} THEN 1 ELSE 0
        d1 == RunOf(s, i + sg, Digits)
        sep == IF Char(s, i + sg + d1) \in {".", ","} THEN 1 ELSE 0
        d2 == RunOf(s, i + sg + d1 + sep, Digits)
    IN IF d1 = 0 THEN 0 ELSE sg + d1 + sep + d2

\* re.findall(r"[-+]?\d+[.,]?\d*", s) from position i on
RECURSIVE FindTokens(_, _)
FindTokens(s, i) ==
    IF i > Len(s) THEN <<>>
    ELSE LET n == TokenLenAt(s, i)
         IN IF n = 0 THEN FindTokens(s, i + 1)
            ELSE <<Slice(s, i, i + n - 1)>> \o FindTokens(s, i + n)

\* float(tok.replace(",", ".")) of a token, as [m, k]: the number m / 10^k
TokenValue(tok) ==
    LET t == ReplaceChar(tok, ",", ".")
        neg == Char(t, 1) = "-"
        body == IF Char(t, 1) \in {"-", "+"} THEN Slice(t, 2, Len(t)) ELSE t
        dot == FirstIndexOf(body, ".")
        ip == IF dot = 0 THEN body ELSE Slice(body, 1, dot - 1)
        fp == IF dot = 0 THEN "" ELSE Slice(body, dot + 1, Len(body))
        m == StrToNat(ip \o fp)
    IN [m |-> IF neg THEN -m ELSE m, k |-> Len(fp)]

\* eff_factor after the loop over the tokens, as [n, e]: the number n / 10^e;
\* each token d = m / 10^k multiplies it by 1 - d/100 = (10^(k+2) - m) / 10^(k+2)
RECURSIVE EffFactor(_)
EffFactor(tokens) ==
    IF tokens = <<>> THEN [n |-> 1, e |-> 0]
    ELSE LET rest == EffFactor(SubSeq(tokens, 1, Len(tokens) - 1))
             d == TokenValue(tokens[Len(tokens)])
         IN [n |-> rest.n * (Pow10(d.k + 2) - d.m), e |-> rest.e + d.k + 2]

\* round(n / d) to the nearest integer for d > 0, a half to the even
\* neighbour; the source rounds the binary float, which may differ at an
\* exact half
RoundHalfEven(n, d) ==
    LET q == n \div d
        r == n - q * d
    IN IF 2 * r < d THEN q
       ELSE IF 2 * r > d THEN q + 1
       ELSE IF q % 2 = 0 THEN q ELSE q + 1

\* round((1.0 - eff_factor) * 100.0, 6) in millionths of a percent:
\* (1 - n/10^e) * 100 * 10^6 = (10^e - n) * 10^(8 - e)
EffPct(f) ==
    LET num == Pow10(f.e) - f.n
    IN IF f.e <= 8 THEN num * Pow10(8 - f.e)
       ELSE RoundHalfEven(num, Pow10(f.e - 8))

\* core/odoo_importer.py: _parse_discounts_chain(val), in millionths of a
\* percent
parse_discounts_chain(val) ==
    LET s == Strip(IF val = "None" THEN "" ELSE val)
    IN IF s = "" THEN 0
       ELSE EffPct(EffFactor(FindTokens(ReplaceChar(s, "%", " "), 1)))

-----------------------------------------------------------------------------
(* One call of a numeric helper, on an argument put together from          *)
(* fragments.                                                              *)

MaxParts == 3
MaxChain == 3

\* pieces of the texts handed to parse_decimal
DecimalPool ==
    {"1", "12", ".234", ",34", ",00", ",56", "-", " ", "abc", "nan", "inf", "e2"}

\* the defaults a caller supplies: 0.0 and -1.0
Defaults == {FloatZero, Float(TRUE, "1", "", 0)}

SeqsUpTo(S, n) == UNION {[1..k -> S] : k \in 0..n}

DecimalInputs ==
    {"None"} \cup {JoinWith(p, "") : p \in SeqsUpTo(DecimalPool, MaxParts)}

\* a chain of discounts: percentages, each followed by a separator
ChainNumbers == {"65", "15", "50", "5"}
ChainSeparators == {" ", ",", "%", "% "}

\* the text of a chain: after the last percentage only a "%" is kept
RECURSIVE ChainText(_)
ChainText(links) ==
    IF links = <<>> THEN ""
    ELSE IF Len(links) = 1
         THEN links[1][1] \o (IF StartsWith(links[1][2], "%") THEN "%" ELSE "")
    ELSE links[1][1] \o links[1][2] \o ChainText(Tail(links))

ChainInputs ==
    {"None"} \cup
    {ChainText(l) : l \in SeqsUpTo(ChainNumbers \X ChainSeparators, MaxChain)}

NumInit ==
    /\ n_pc = "call" /\ n_out = <<>>
    /\ \/ n_fn = "parse_decimal" /\ n_in \in DecimalInputs
          /\ n_default \in Defaults
       \/ n_fn = "_parse_discounts_chain" /\ n_in \in ChainInputs
          /\ n_default = <<>>

ParseDecimal ==
    /\ n_pc = "call" /\ n_fn = "parse_decimal"
    /\ n_out' = parse_decimal(n_in, n_default)
    /\ n_pc' = "done"
    /\ UNCHANGED <<n_fn, n_in, n_default>>
    /\ UNCHANGED numOthers

ParseDiscountsChain ==
    /\ n_pc = "call" /\ n_fn = "_parse_discounts_chain"
    /\ n_out' = parse_discounts_chain(n_in)
    /\ n_pc' = "done"
    /\ UNCHANGED <<n_fn, n_in, n_default>>
    /\ UNCHANGED numOthers

NumNext == ParseDecimal \/ ParseDiscountsChain

InitNum == NumInit /\ OthersIdle("num")

SpecNum == InitNum /\ [][NumNext]_vars

-----------------------------------------------------------------------------
(* The batch loop of cli.main (cli.py).  What read_pdf_text, the detector, *)
(* the adapter, write_csv, the importer and shutil.move do to one PDF is   *)
(* left open: each either returns or raises.                               *)

\* the characters of the file names, in the order of their code points
CodePointOrder == "-." \o Digits \o UpperLetters \o "_" \o LowerLetters

\* a < b for two strings (and for two paths of one directory)
RECURSIVE StrLess(_, _)
StrLess(a, b) ==
    IF b = "" THEN FALSE
    ELSE IF a = "" THEN TRUE
    ELSE IF Head(a) = Head(b) THEN StrLess(Tail(a), Tail(b))
    ELSE IndexIn(Head(a), CodePointOrder) < IndexIn(Head(b), CodePointOrder)

\* the position of the last "." of a name, 0 if it has none
LastDot(name) ==
    IF InStr(".", name)
    THEN CHOOSE i \in 1..Len(name) :
            Char(name, i) = "." /\ \A j \in (i + 1)..Len(name) : Char(name, j) # "."
    ELSE 0

\* Path(name).suffix
Suffix(name) ==
    LET k == LastDot(name)
    IN IF k <= 1 \/ k = Len(name) THEN "" ELSE Slice(name, k, Len(name))

\* p.is_file() and p.suffix.lower() == ".pdf"
IsPdfFile(entry) == entry.is_file /\ Lower(Suffix(entry.name)) = ".pdf"

\* sorted(...) of a set of names
RECURSIVE SortNames(_)
SortNames(S) ==
    IF S = {} THEN <<>>
    ELSE LET m == CHOOSE x \in S : \A y \in S \ {x} : StrLess(x, y)
         IN <<m>> \o SortNames(S \ {m})

\* the list pdfs of main(): the target itself when it is a file, the sorted
\* PDF files of the target when it is a directory
PdfList(target) ==
    IF target.kind = "file"
    THEN (IF Lower(Suffix(target.entries[1].name)) = ".pdf"
          THEN <<target.entries[1].name>> ELSE <<>>)
    ELSE SortNames({target.entries[k].name :
                        k \in {j \in 1..Len(target.entries) : IsPdfFile(target.entries[j])}})

\* a plausible slip: an error in one PDF ends the batch
AbortBatch(i, n) == n + 1

\* `continue`: the loop goes on with the next PDF
NextPdf(i, n) == i + 1

MaxFiles == 2

Entry(name, is_file) == [name |-> name, is_file |-> is_file]

\* what the target directory may hold
EntryPool ==
    {Entry("b.pdf", TRUE), Entry("a_1.pdf", TRUE), Entry("C.PDF", TRUE),
     Entry("notes.txt", TRUE), Entry("old.pdf", FALSE)}

\* listings: the entries of a directory in the order iterdir() yields them
Listings ==
    {l \in SeqsUpTo(EntryPool, MaxFiles) :
        \A i, j \in 1..Len(l) : i # j => l[i].name # l[j].name}

Targets ==
    {[kind |-> "dir", entries |-> l] : l \in Listings}
    \cup {[kind |-> "file", entries |-> <<x>>] : x \in {y \in EntryPool : y.is_file}}

\* main() has not read its arguments yet
CliInit ==
    /\ c_target = <<>> /\ c_do_import = FALSE /\ c_provider = ""
    /\ c_pdfs = <<>> /\ c_i = 0 /\ c_reads = <<>> /\ c_log = <<>>
    /\ c_stage = "list"
    /\ c_files = [csv |-> {}, imported |-> {}, processed |-> {}]

\* the loop variable moves on after PDF c_i ended with result r
CliEnd(r, next) ==
    /\ c_log' = Append(c_log, [pdf |-> c_pdfs[c_i], result |-> r])
    /\ c_i' = next
    /\ c_stage' = IF next > Len(c_pdfs) THEN "done" ELSE "read"

\* `except Exception`: log and continue
CliFail == CliEnd("error", NextPdf(c_i, Len(c_pdfs)))

CliStep(stage) ==
    /\ c_stage' = stage
    /\ UNCHANGED <<c_i, c_log>>

\* the arguments are read and the list of PDFs is built; without PDFs
\* main() raises SystemExit
CliList ==
    /\ c_stage = "list"
    /\ \E target \in Targets, do_import \in BOOLEAN, forced \in {"", "michelin"} :
        /\ c_target' = target
        /\ c_do_import' = do_import
        /\ c_provider' = forced
        /\ c_pdfs' = PdfList(target)
        /\ IF PdfList(target) = <<>>
           THEN c_stage' = "exit" /\ c_i' = c_i
           ELSE c_stage' = "read" /\ c_i' = 1
    /\ UNCHANGED <<c_reads, c_log, c_files>>
    /\ UNCHANGED cliOthers

\* text = read_pdf_text(pdf)
CliRead ==
    /\ c_stage = "read"
    /\ c_reads' = Append(c_reads, c_pdfs[c_i])
    /\ \E ok \in BOOLEAN : IF ok THEN CliStep("detect") ELSE CliFail
    /\ UNCHANGED <<c_target, c_do_import, c_provider, c_pdfs, c_files>>
    /\ UNCHANGED cliOthers

\* provider_name = args.provider or detect_provider(...); None ends this PDF
CliDetect ==
    /\ c_stage = "detect"
    /\ IF c_provider # "" THEN CliStep("parse")
       ELSE \E r \in {"found", "None", "raise"} :
                IF r = "found" THEN CliStep("parse")
                ELSE IF r = "None"
                     THEN CliEnd("no_provider", NextPdf(c_i, Len(c_pdfs)))
                ELSE CliFail
    /\ UNCHANGED <<c_target, c_do_import, c_provider, c_pdfs, c_reads, c_files>>
    /\ UNCHANGED cliOthers

\* Adapter = get_adapter(provider_name); doc = Adapter.parse(str(pdf))
CliParse ==
    /\ c_stage = "parse"
    /\ \E ok \in BOOLEAN : IF ok THEN CliStep("write") ELSE CliFail
    /\ UNCHANGED <<c_target, c_do_import, c_provider, c_pdfs, c_reads, c_files>>
    /\ UNCHANGED cliOthers

\* a plausible slip: the PDF is moved right after its CSV is written
MoveAfterWrite(do_import) == "move"

\* what follows write_csv: the importer when --import was given
AfterWrite(do_import) == IF do_import THEN "import" ELSE "move"

\* write_csv(doc, csv_path)
CliWrite ==
    /\ c_stage = "write"
    /\ \E ok \in BOOLEAN :
        IF ok
        THEN /\ CliStep(AfterWrite(c_do_import))
             /\ c_files' = [c_files EXCEPT !.csv = @ \cup {c_pdfs[c_i]}]
        ELSE CliFail /\ c_files' = c_files
    /\ UNCHANGED <<c_target, c_do_import, c_provider, c_pdfs, c_reads>>
    /\ UNCHANGED cliOthers

\* if args.do_import: _call_odoo_importer(csv_path, log)
CliImport ==
    /\ c_stage = "import"
    /\ \E ok \in BOOLEAN :
        IF ok
        THEN /\ CliStep("move")
             /\ c_files' = [c_files EXCEPT !.imported = @ \cup {c_pdfs[c_i]}]
        ELSE CliFail /\ c_files' = c_files
    /\ UNCHANGED <<c_target, c_do_import, c_provider, c_pdfs, c_reads>>
    /\ UNCHANGED cliOthers

\* shutil.move(...) inside its own try/except: a failure is only logged
CliMove ==
    /\ c_stage = "move"
    /\ \E moved \in BOOLEAN :
        /\ CliEnd(IF moved THEN "moved" ELSE "not_moved", c_i + 1)
        /\ c_files' = IF moved
                      THEN [c_files EXCEPT !.processed = @ \cup {c_pdfs[c_i]}]
                      ELSE c_files
    /\ UNCHANGED <<c_target, c_do_import, c_provider, c_pdfs, c_reads>>
    /\ UNCHANGED cliOthers

CliNext ==
    \/ CliList \/ CliRead \/ CliDetect \/ CliParse \/ CliWrite \/ CliImport
    \/ CliMove

InitCli == CliInit /\ OthersIdle("cli")

SpecCli == InitCli /\ [][CliNext]_vars

\* every call of the loop body returns or raises: a step that can be taken
\* is taken
SpecCliLive == SpecCli /\ WF_vars(CliNext)

-----------------------------------------------------------------------------
(* Forced import: pipeline.main hands the child process its environment,   *)
(* and import_csv (core/odoo_importer.py) reads its switches from it.      *)
(* An environment is a record of the variables read, "None" for a variable *)
(* that is not set; it is the environment after load_dotenv().             *)

Getenv(env, name, default) == IF env[name] = "None" THEN default ELSE env[name]

\* pipeline.py: env_force
env_force(env) ==
    Lower(Getenv(env, "ODOO_IMPORT_FORCE", "false")) \in {"1", "true", "yes", "y"}

\* pipeline.py: force_import = args.force_import or env_force
force_import(args, env) == args.force_import \/ env_force(env)

\* pipeline.py: child_env
ChildEnv(args, env) ==
    IF force_import(args, env) THEN [env EXCEPT !["ODOO_IMPORT_FORCE"] = "1"]
    ELSE env

\* core/odoo_importer.py: _env()
ImporterEnv(env) ==
    [dedup_by_partner_ref |->
        Strip(Getenv(env, "DEDUP_BY_PARTNER_REF", "1")) \in {"1", "true", "True"},
     force |-> Strip(Getenv(env, "FORCE_IMPORT", "0")) \in {"1", "true", "True"}]

\* the search for a purchase order of the partner that is not cancelled
\* and has the value v in field
LiveOrders(orders, field, v) ==
    {k \in 1..Len(orders) :
        orders[k][field] = v /\ orders[k].same_partner /\ orders[k].state # "cancel"}

\* import_csv from the partner lookup on: the result and the orders after it
import_csv(e, csv, orders, hash_field) ==
    LET exists == LiveOrders(orders, "partner_ref", csv.ref)
        dup_by_hash == LiveOrders(orders, "x_import_hash", csv.hash)
        \* the hash search raises where the server has no x_import_hash
        import_hash == IF hash_field THEN csv.hash ELSE ""
        po == [partner_ref |-> csv.ref, same_partner |-> TRUE, state |-> "draft",
               x_import_hash |-> import_hash]
    IN IF ~csv.partner_found
       THEN [result |-> "skipped: no partner", orders |-> orders]
       ELSE IF e.dedup_by_partner_ref /\ csv.ref # "" /\ exists # {} /\ ~e.force
       THEN [result |-> "skipped: partner_ref", orders |-> orders]
       ELSE IF hash_field /\ dup_by_hash # {} /\ ~e.force
       THEN [result |-> "skipped: x_import_hash", orders |-> orders]
       ELSE IF ~csv.has_lines
       THEN [result |-> "skipped: no lines", orders |-> orders]
       ELSE [result |-> "created", orders |-> Append(orders, po)]

MaxOrders == 1

EnvVars == {"ODOO_IMPORT_FORCE", "FORCE_IMPORT", "DEDUP_BY_PARTNER_REF"}

Environments ==
    {env \in [EnvVars -> {"None", "0", "1", "yes"}] :
        /\ env["FORCE_IMPORT"] # "yes"
        /\ env["ODOO_IMPORT_FORCE"] # "1"
        /\ env["DEDUP_BY_PARTNER_REF"] \in {"None", "0"}}

Order(ref, same, state, hash) ==
    [partner_ref |-> ref, same_partner |-> same, state |-> state,
     x_import_hash |-> hash]

\* purchase orders Odoo may hold already
OrderPool ==
    {Order("ALB1", TRUE, "draft", "h1"), Order("ALB1", TRUE, "cancel", "h1"),
     Order("ALB1", FALSE, "purchase", "h0"), Order("ALB2", TRUE, "purchase", "h1")}

Csvs ==
    [ref : {"ALB1", ""}, hash : {"h1"}, partner_found : BOOLEAN, has_lines : BOOLEAN]

ImportInit ==
    /\ i_args \in [force_import : BOOLEAN, no_import : BOOLEAN]
    /\ i_environ \in Environments
    /\ i_orders \in SeqsUpTo(OrderPool, MaxOrders)
    /\ i_csv \in Csvs
    /\ i_hash_field \in BOOLEAN
    /\ i_child_env = <<>> /\ i_result = "pending" /\ i_before = <<>>
    /\ i_pc = "pipeline"

\* pipeline.main up to the call of cli.py: --import is passed unless
\* --no-import was given (PIPELINE_IMPORT keeps its default)
PipelineMain ==
    /\ i_pc = "pipeline"
    /\ i_child_env' = ChildEnv(i_args, i_environ)
    /\ IF i_args.no_import
       THEN i_pc' = "done" /\ i_result' = "not imported"
       ELSE i_pc' = "import" /\ i_result' = i_result
    /\ UNCHANGED <<i_args, i_environ, i_orders, i_csv, i_hash_field, i_before>>
    /\ UNCHANGED importOthers

\* the child process imports the CSV it wrote
ImportCsv ==
    /\ i_pc = "import"
    /\ LET r == import_csv(ImporterEnv(i_child_env), i_csv, i_orders, i_hash_field)
       IN /\ i_result' = r.result
          /\ i_orders' = r.orders
    /\ i_before' = i_orders
    /\ i_pc' = "done"
    /\ UNCHANGED <<i_args, i_environ, i_child_env, i_csv, i_hash_field>>
    /\ UNCHANGED importOthers

ImportNext == PipelineMain \/ ImportCsv

InitImport == ImportInit /\ OthersIdle("import")

SpecImport == InitImport /\ [][ImportNext]_vars

-----------------------------------------------------------------------------
(* The importer's reading of a Product cell, core/odoo_importer.py.        *)

AsciiLetters == UpperLetters \o LowerLetters

\* _normalize_default_code: strip, then WHITES_RE.sub("", s)
normalize_default_code(s) ==
    RemoveChar(RemoveChar(RemoveChar(Strip(s), " "), "\n"), "\t")

\* SKU_BRACKET_RE.search(raw) can match from position i:  \[(.*?)\]
BracketAt(raw, i) ==
    /\ Char(raw, i) = "["
    /\ \E j \in (i + 1)..Len(raw) :
          Char(raw, j) = "]" /\ \A k \in (i + 1)..(j - 1) : Char(raw, k) # "\n"

\* m.group(1) of the leftmost, shortest match of SKU_BRACKET_RE
BracketInside(raw) ==
    LET i == CHOOSE a \in 1..Len(raw) :
                BracketAt(raw, a) /\ \A b \in 1..(a - 1) : ~BracketAt(raw, b)
        j == CHOOSE a \in (i + 1)..Len(raw) :
                Char(raw, a) = "]" /\ \A b \in (i + 1)..(a - 1) : Char(raw, b) # "]"
    IN SubSeq(raw, i + 1, j - 1)

\* re.match(r"^([A-Za-z]{1,10}\d{2,15})", inside), "" when it does not match
LettersThenDigits(inside) ==
    LET l == RunOf(inside, 1, AsciiLetters)
        d == RunOf(inside, l + 1, Digits)
    IN IF l >= 1 /\ l <= 10 /\ d >= 2 THEN SubSeq(inside, 1, l + Min(d, 15)) ELSE ""

\* re.match(r"^([A-Za-z0-9]+)", inside), "" when it does not match
LeadingAlnum(inside) == SubSeq(inside, 1, RunOf(inside, 1, AsciiLetters \o Digits))

\* the SKU taken from the bracket content
BracketSku(inside) ==
    IF LettersThenDigits(inside) # "" THEN LettersThenDigits(inside)
    ELSE IF LeadingAlnum(inside) # "" THEN LeadingAlnum(inside)
    ELSE inside

\* SKU_LEADING_RE.search(raw):  ^([A-Za-z0-9\-\._]+), "" when it does not match
LeadingToken(raw) == SubSeq(raw, 1, RunOf(raw, 1, AsciiLetters \o Digits \o "-._"))

\* _extract_sku
extract_sku(raw) ==
    IF raw = "" THEN ""
    ELSE IF \E i \in 1..Len(raw) : BracketAt(raw, i)
    THEN normalize_default_code(BracketSku(Strip(BracketInside(raw))))
    ELSE IF LeadingToken(raw) # "" THEN normalize_default_code(LeadingToken(raw))
    ELSE normalize_default_code(raw)

-----------------------------------------------------------------------------
(* import_csv called again and again on one CSV file, row by row.          *)

\* s.rfind(c), 0 when c is not in s
LastIndexOf(s, c) ==
    IF InStr(c, s)
    THEN CHOOSE i \in 1..Len(s) :
            Char(s, i) = c /\ \A j \in (i + 1)..Len(s) : Char(s, j) # c
    ELSE 0

\* the text _parse_qty hands to float(): the later of "," and "." is the
\* decimal mark
QtyText(s) ==
    IF InStr(",", s) /\ InStr(".", s)
    THEN IF LastIndexOf(s, ".") > LastIndexOf(s, ",")
         THEN RemoveChar(s, ",")
         ELSE ReplaceChar(RemoveChar(s, "."), ",", ".")
    ELSE ReplaceChar(s, ",", ".")

\* _parse_qty: the default for an empty cell and for what float() rejects
\* (t is the text handed to float(), computed once)
parse_qty(val, default) ==
    CHOOSE q \in {IF t = "" THEN default
                  ELSE IF PyFloat(t) = ValueError THEN default
                  ELSE PyFloat(t) : t \in {QtyText(Strip(val))}} : TRUE

\* a plausible slip: a row is kept whatever its quantity is
KeepsAnyQty(sku, qty_raw) == sku # ""

\* the rows that go on: not (not sku or qty_raw == 0.0)
KeepsRow(sku, qty_raw) == sku # "" /\ qty_raw # FloatZero

\* the body of the loop for row k: the line it appends, if any. A row is
\* left out when its SKU is empty or its quantity is 0, and when its product
\* is neither found nor created (failing: the SKUs for which _create_product
\* raises)
RowLines(k, sku, qty_raw, desc, failing) ==
    IF KeepsRow(sku, qty_raw) /\ sku \notin failing
    THEN <<[row |-> k, default_code |-> sku,
            name |-> IF desc # "" THEN desc ELSE sku,
            product_qty |-> qty_raw]>>
    ELSE <<>>

\* the loop over df.iterrows(): the order lines, in row order
RECURSIVE OrderLinesFrom(_, _, _)
OrderLinesFrom(rows, k, failing) ==
    IF k > Len(rows) THEN <<>>
    ELSE RowLines(k, extract_sku(Strip(rows[k].prod)),
                  parse_qty(rows[k].qty, FloatZero), Strip(rows[k].desc),
                  failing)
             \o OrderLinesFrom(rows, k + 1, failing)

OrderLines(rows, failing) == OrderLinesFrom(rows, 1, failing)

\* _compute_import_hash: the digest of the partner, the reference, the path
\* and the five cells of every row; equal inputs give equal digests
compute_import_hash(csv) ==
    LET base(r) == JoinWith(<<Strip(r.prod), Strip(r.desc), Strip(r.qty),
                              Strip(r.price), Strip(r.dto)>>, "|")
    IN "sha256(" \o csv.ref \o csv.path
           \o JoinWith([k \in 1..Len(csv.rows) |-> base(csv.rows[k])], "")
           \o ")"

MaxCsvRows == 2
MaxImports == 2

CsvRow(prod, desc, qty) ==
    [prod |-> prod, desc |-> desc, qty |-> qty, price |-> "1.50", dto |-> "0.00"]

\* rows a CSV written by cli.py may hold; the second is Vendor B's
\* placeholder
CsvRowPool ==
    {CsvRow("[1234] TUBO", "TUBO", "2.00"),
     CsvRow(NoLinesItem.producto, NoLinesItem.descripcion, NoLinesItem.cantidad),
     CsvRow("[A-7] FILTRO", "FILTRO", "0,00"),
     CsvRow("[5678] BOTE", "", "-1,00")}

OdooInit ==
    /\ o_e \in [dedup_by_partner_ref : BOOLEAN, force : BOOLEAN]
    /\ o_server \in [partner_found : BOOLEAN, hash_field : BOOLEAN,
                     failing : SUBSET {"5678"}]
    /\ o_csv \in [path : {"out/albaran.csv"}, ref : {"ALB1", ""},
                  rows : SeqsUpTo(CsvRowPool, MaxCsvRows) \ {<<>>}]
    /\ o_orders = <<>>
    /\ o_calls = <<>>
    /\ o_pc = "ready"

\* one call of import_csv(csv_path)
OdooImportCsv ==
    /\ o_pc = "ready" /\ Len(o_calls) < MaxImports
    /\ LET lines == OrderLines(o_csv.rows, o_server.failing)
           r == import_csv(o_e,
                           [ref |-> o_csv.ref,
                            hash |-> compute_import_hash(o_csv),
                            partner_found |-> o_server.partner_found,
                            has_lines |-> lines # <<>>],
                           o_orders, o_server.hash_field)
       IN /\ o_orders' = r.orders
          /\ o_calls' = Append(o_calls,
                               [result |-> r.result,
                                lines |-> IF r.result = "created" THEN lines
                                          ELSE <<>>])
    /\ UNCHANGED <<o_e, o_server, o_csv, o_pc>>
    /\ UNCHANGED odooOthers

OdooNext == OdooImportCsv

InitOdoo == OdooInit /\ OthersIdle("odoo")

SpecOdoo == InitOdoo /\ [][OdooNext]_vars

-----------------------------------------------------------------------------
(* pipeline.main: the passes of cli.py.                                    *)

\* scan_inbox: the files whose name ends in ".pdf" whatever the case, sorted
scan_inbox(entries) ==
    SortNames({e.name : e \in {x \in entries :
                                  x.is_file /\ EndsWith(Lower(x.name), ".pdf")}})

\* the exit status the caller of a process sees after sys.exit(rc)
ExitStatus(rc) == rc % 256

\* a plausible slip: the local pass runs whenever no CSV is new
FallbackWithoutPdfs(new_csvs, pdfs_local, no_fetch_mail) == new_csvs = {}

\* if not new_csvs and pdfs_local and not args.no_fetch_mail
NeedsLocalPass(new_csvs, pdfs_local, no_fetch_mail) ==
    new_csvs = {} /\ pdfs_local # <<>> /\ ~no_fetch_mail

\* what the folders may hold, and how a run of cli.py may end: an exit code,
\* or a negative return code when a signal ended it
InboxPool ==
    {[name |-> "a.pdf", is_file |-> TRUE], [name |-> "B.PDF", is_file |-> TRUE],
     [name |-> "notes.txt", is_file |-> TRUE],
     [name |-> "old.pdf", is_file |-> FALSE]}
CsvNames == {"a.csv", "B.csv"}
ReturnCodes == {0, 1, 2, -9}

PipeInit ==
    /\ pl_no_fetch \in BOOLEAN
    /\ pl_inbox \in SUBSET InboxPool
    /\ pl_out \in SUBSET CsvNames
    /\ pl_local = <<>> /\ pl_before = {} /\ pl_runs = <<>> /\ pl_exit = <<>>
    /\ pl_pc = "scan"

\* pdfs_local = scan_inbox(inbox); csvs_before = the names in out_dir
PipeScan ==
    /\ pl_pc = "scan"
    /\ pl_local' = scan_inbox(pl_inbox)
    /\ pl_before' = pl_out
    /\ pl_pc' = "first"
    /\ UNCHANGED <<pl_no_fetch, pl_inbox, pl_out, pl_runs, pl_exit>>
    /\ UNCHANGED pipeOthers

\* sh(cmd): cli.py runs, may write CSV files, and returns rc
Run(fetch_mail, rc, written) ==
    /\ pl_out' = pl_out \cup written
    /\ pl_runs' = Append(pl_runs, [fetch_mail |-> fetch_mail, rc |-> rc,
                                   csvs |-> pl_out \cup written])
    /\ UNCHANGED <<pl_no_fetch, pl_inbox, pl_local, pl_before>>

\* rc = sh(cmd, env=child_env); if rc != 0: sys.exit(rc)
PipeFirstPass ==
    /\ pl_pc = "first"
    /\ \E rc \in ReturnCodes, written \in SUBSET CsvNames :
        /\ Run(~pl_no_fetch, rc, written)
        /\ IF rc # 0
           THEN pl_exit' = <<ExitStatus(rc)>> /\ pl_pc' = "done"
           ELSE pl_exit' = pl_exit /\ pl_pc' = "decide"
    /\ UNCHANGED pipeOthers

\* the fallback: rc2 = sh(cmd_local, env=child_env); if rc2 != 0: sys.exit(rc2)
PipeLocalPass ==
    /\ pl_pc = "decide"
    /\ NeedsLocalPass(pl_out \ pl_before, pl_local, pl_no_fetch)
    /\ \E rc \in ReturnCodes, written \in SUBSET CsvNames :
        /\ Run(FALSE, rc, written)
        /\ pl_exit' = <<ExitStatus(rc)>>
    /\ pl_pc' = "done"
    /\ UNCHANGED pipeOthers

\* the final report, and main() returns
PipeReport ==
    /\ pl_pc = "decide"
    /\ ~NeedsLocalPass(pl_out \ pl_before, pl_local, pl_no_fetch)
    /\ pl_exit' = <<0>>
    /\ pl_pc' = "done"
    /\ UNCHANGED <<pl_no_fetch, pl_inbox, pl_out, pl_local, pl_before, pl_runs>>
    /\ UNCHANGED pipeOthers

PipeNext == PipeScan \/ PipeFirstPass \/ PipeLocalPass \/ PipeReport

InitPipe == PipeInit /\ OthersIdle("pipe")

SpecPipe == InitPipe /\ [][PipeNext]_vars

-----------------------------------------------------------------------------
(* core/gmail_downloader.py: the messages of a label and their PDFs.       *)
(* A file name that is None is written "".                                 *)

SafeNameChars == AsciiLetters \o Digits \o "._-"

\* SAFE_NAME_RE.sub("_", name): every run of other characters becomes "_"
RECURSIVE SubUnsafe(_)
SubUnsafe(s) ==
    IF s = "" THEN ""
    ELSE IF InStr(Head(s), SafeNameChars) THEN Head(s) \o SubUnsafe(Tail(s))
    ELSE IF Len(s) > 1 /\ ~InStr(Char(s, 2), SafeNameChars) THEN SubUnsafe(Tail(s))
    ELSE "_" \o SubUnsafe(Tail(s))

\* _sanitize_filename
sanitize_filename(name) ==
    LET s == SubUnsafe(ReplaceChar(Strip(name), " ", "_"))
    IN IF s = "" THEN "adjunto.pdf" ELSE s

\* os.path.splitext: the extension starts at the last dot of the last
\* component, unless only dots come before it
splitext(p) ==
    LET sep == LastIndexOf(p, "/")
        dot == LastIndexOf(p, ".")
    IN IF dot > sep /\ \E k \in (sep + 1)..(dot - 1) : Char(p, k) # "."
       THEN [root |-> SubSeq(p, 1, dot - 1), ext |-> SubSeq(p, dot, Len(p))]
       ELSE [root |-> p, ext |-> ""]

\* mimetypes.guess_extension for the content types of the parts below
GuessExtension(ct) ==
    CASE ct = "application/pdf" -> ".pdf"
      [] ct = "application/octet-stream" -> ".bin"
      [] ct = "text/plain" -> ".txt"
      [] OTHER -> ""

\* _ensure_pdf_extension
ensure_pdf_extension(fname, ct) ==
    LET s == splitext(fname)
    IN IF Lower(ct) = "application/pdf"
       THEN (IF Lower(s.ext) # ".pdf" THEN s.root \o ".pdf" ELSE fname)
       ELSE IF Lower(s.ext) = ".pdf" THEN fname
       ELSE IF GuessExtension(ct) = ".pdf" THEN s.root \o ".pdf"
       ELSE fname

\* _is_pdf_part
is_pdf_part(part) ==
    \/ part.ct = "application/pdf"
    \/ part.ct = "application/octet-stream" /\ EndsWith(Lower(part.fname), ".pdf")
    \/ EndsWith(Lower(part.fname), ".pdf")

\* a plausible slip: the first candidate path is taken as it is
FirstCandidate(disk, dir, root, ext, i) == dir \o "/" \o root \o ext

\* the while loop of _unique_path, entered with the candidate number i
\* (0: the name without a number)
RECURSIVE UniqueFrom(_, _, _, _, _)
UniqueFrom(disk, dir, root, ext, i) ==
    LET path == IF i = 0 THEN dir \o "/" \o root \o ext
                ELSE dir \o "/" \o root \o "-" \o NatToStr(i) \o ext
    IN IF path \in disk THEN UniqueFrom(disk, dir, root, ext, i + 1) ELSE path

\* _unique_path, disk being the paths for which os.path.exists is true
unique_path(disk, dir, fname) ==
    LET s == splitext(sanitize_filename(fname))
        ext == IF s.ext = "" \/ Lower(s.ext) # ".pdf" THEN ".pdf" ELSE s.ext
    IN UniqueFrom(disk, dir, s.root, ext, 0)

\* the path _save_pdf writes for a PDF part
SavePath(disk, dir, part) ==
    unique_path(disk, dir,
                ensure_pdf_extension(IF part.fname = "" THEN "adjunto.pdf"
                                     ELSE part.fname, part.ct))

MaxMessages == 2
DownloadDir == "inbox"

Part(fname, ct, payload) == [fname |-> fname, ct |-> ct, payload |-> payload]

\* the body of a message, and attachments whose names coincide once
\* sanitized or coincide with a numbered name
BodyPart == Part("", "text/plain", TRUE)
MessagePool ==
    {<<BodyPart>>,
     <<BodyPart, Part("factura 1.pdf", "application/pdf", TRUE)>>,
     <<Part("factura_1.pdf", "application/octet-stream", TRUE),
       Part("factura_1-1", "application/pdf", TRUE)>>,
     <<Part("", "application/pdf", FALSE)>>}

MailInit ==
    /\ gm_cfg \in [mark_seen : BOOLEAN, readwrite : BOOLEAN]
    /\ gm_ids \in SeqsUpTo(MessagePool, MaxMessages)
    /\ gm_disk \in {{}, {"inbox/factura_1.pdf"}}
    /\ gm_i = 1 /\ gm_part = 0 /\ gm_seen = {}
    /\ gm_paths = <<>> /\ gm_saves = <<>> /\ gm_log = <<>>
    /\ gm_pc = IF gm_ids = <<>> THEN "done" ELSE "fetch"

\* the loop goes on to the next message after this one ended with result r
MailEnd(r, paths) ==
    /\ gm_log' = Append(gm_log, [msg |-> gm_i, result |-> r, paths |-> paths])
    /\ gm_i' = gm_i + 1
    /\ gm_part' = 0
    /\ gm_paths' = <<>>
    /\ gm_pc' = IF gm_i + 1 > Len(gm_ids) THEN "done" ELSE "fetch"

\* imap.uid("FETCH", num, "(RFC822)"): it raises, answers NO, or returns
\* the message; RFC822 is BODY[] without PEEK, so on a mailbox selected
\* read-write the server sets \Seen on the message it returns
MailFetch ==
    /\ gm_pc = "fetch"
    /\ \E r \in {"OK", "NO", "raise"} :
        IF r = "OK"
        THEN /\ gm_seen' = IF gm_cfg.readwrite THEN gm_seen \cup {gm_i} ELSE gm_seen
             /\ gm_part' = 1 /\ gm_pc' = "parts"
             /\ UNCHANGED <<gm_i, gm_paths, gm_log>>
        ELSE /\ MailEnd(IF r = "NO" THEN "fetch failed" ELSE "raised", <<>>)
             /\ gm_seen' = gm_seen
    /\ UNCHANGED <<gm_cfg, gm_ids, gm_disk, gm_saves>>
    /\ UNCHANGED mailOthers

\* one part of msg_obj.walk() in _extract_pdfs_from_msg: a PDF part with a
\* payload is saved, unless writing it raises, which ends the message
MailPart ==
    /\ gm_pc = "parts" /\ gm_part <= Len(gm_ids[gm_i])
    /\ LET part == gm_ids[gm_i][gm_part]
           path == SavePath(gm_disk, DownloadDir, part)
       IN IF is_pdf_part(part) /\ part.payload
          THEN \E ok \in BOOLEAN :
                  IF ok
                  THEN /\ gm_disk' = gm_disk \cup {path}
                       /\ gm_saves' = Append(gm_saves,
                                             [msg |-> gm_i, fname |-> part.fname,
                                              path |-> path,
                                              existed |-> path \in gm_disk])
                       /\ gm_paths' = Append(gm_paths, path)
                       /\ gm_part' = gm_part + 1
                       /\ UNCHANGED <<gm_i, gm_log, gm_pc>>
                  ELSE /\ MailEnd("raised", <<>>)
                       /\ UNCHANGED <<gm_disk, gm_saves>>
          ELSE /\ gm_part' = gm_part + 1
               /\ UNCHANGED <<gm_i, gm_disk, gm_paths, gm_saves, gm_log, gm_pc>>
    /\ UNCHANGED <<gm_cfg, gm_ids, gm_seen>>
    /\ UNCHANGED mailOthers

\* if GMAIL_MARK_SEEN and paths: STORE +FLAGS (\Seen), whose failure is only
\* logged (it fails on a read-only mailbox); then saved.extend(paths)
MailStore ==
    /\ gm_pc = "parts" /\ gm_part > Len(gm_ids[gm_i])
    /\ IF gm_cfg.mark_seen /\ gm_paths # <<>>
       THEN \E ok \in {gm_cfg.readwrite, FALSE} :
               gm_seen' = IF ok THEN gm_seen \cup {gm_i} ELSE gm_seen
       ELSE gm_seen' = gm_seen
    /\ MailEnd("done", gm_paths)
    /\ UNCHANGED <<gm_cfg, gm_ids, gm_disk, gm_saves>>
    /\ UNCHANGED mailOthers

MailNext == MailFetch \/ MailPart \/ MailStore

InitMail == MailInit /\ OthersIdle("mail")

SpecMail == InitMail /\ [][MailNext]_vars

-----------------------------------------------------------------------------
(* _find_product_by_default_code_partial.                                  *)
(* A template is [id, default_code, write_date, product]: write_date is a  *)
(* day number (the code compares the timestamps as strings, which orders   *)
(* them by time) and product is the id of its first variant, 0 for none.   *)

\* clean_needles: the non-blank needles, stripped and in upper case
RECURSIVE CleanNeedles(_)
CleanNeedles(needles) ==
    IF needles = <<>> THEN <<>>
    ELSE (IF Strip(Head(needles)) = "" THEN <<>>
          ELSE <<Upper(Strip(Head(needles)))>>) \o CleanNeedles(Tail(needles))

\* _score
Score(dc, needle) ==
    LET sdc == Upper(dc)
    IN IF sdc = "" \/ needle = "" THEN 0
       ELSE IF sdc = needle THEN 100
       ELSE IF EndsWith(sdc, needle) THEN 90
       ELSE IF Contains(sdc, needle) THEN 80
       ELSE 0

SearchLimit == 50

\* search_read([("default_code", "ilike", needle)]) with limit 50 and order
\* write_date desc
SearchRead(templates, needle) ==
    LET recs == {t \in templates : Contains(Upper(t.default_code), Upper(needle))}
    IN {t \in recs :
          Cardinality({u \in recs : u.write_date > t.write_date}) < SearchLimit}

\* key > best for the keys (sc, -len(dc), write_date, tid, ...)
KeyGreater(a, b) ==
    \/ a.sc > b.sc
    \/ a.sc = b.sc /\ Len(a.t.default_code) < Len(b.t.default_code)
    \/ a.sc = b.sc /\ Len(a.t.default_code) = Len(b.t.default_code)
         /\ a.t.write_date > b.t.write_date
    \/ a.sc = b.sc /\ Len(a.t.default_code) = Len(b.t.default_code)
         /\ a.t.write_date = b.t.write_date /\ a.t.id > b.t.id

\* the records of one needle that are looked at: not seen before
Fresh(templates, needle, seen) ==
    {t \in SearchRead(templates, needle) : t.id \notin seen}

\* seen after the records of one needle
SeenAfter(templates, needle, seen) ==
    seen \cup {t.id : t \in Fresh(templates, needle, seen)}

\* best after the records of one needle: the greatest key among best and
\* the fresh records that score and have a product
BestAfter(templates, needle, seen, best) ==
    LET keys == {[sc |-> Score(t.default_code, needle), t |-> t] :
                    t \in {x \in Fresh(templates, needle, seen) :
                              Score(x.default_code, needle) > 0 /\ x.product # 0}}
        all == keys \cup {best[k] : k \in 1..Len(best)}
    IN IF all = {} THEN <<>>
       ELSE <<CHOOSE a \in all : \A b \in all \ {a} : KeyGreater(a, b)>>

\* the loop over clean_needles
RECURSIVE FindLoop(_, _, _, _)
FindLoop(templates, needles, seen, best) ==
    IF needles = <<>> THEN best
    ELSE FindLoop(templates, Tail(needles),
                  SeenAfter(templates, Head(needles), seen),
                  BestAfter(templates, Head(needles), seen, best))

\* _find_product_by_default_code_partial: <<>> for None, else <<product_id>>
find_product_by_default_code_partial(templates, needles) ==
    LET best == FindLoop(templates, CleanNeedles(needles), {}, <<>>)
    IN IF best = <<>> THEN <<>> ELSE <<best[1].t.product>>

MaxNeedles == 2

Template(id, dc, wd, product) ==
    [id |-> id, default_code |-> dc, write_date |-> wd, product |-> product]

TemplatePool ==
    {Template(1, "A123B", 1, 11), Template(2, "x123", 2, 12),
     Template(3, "K-123", 1, 13), Template(4, "ZZ9", 3, 0)}

NeedlePool == {"123", " a123b ", "", "ZZ9"}

FindInit ==
    /\ fp_templates \in SUBSET TemplatePool
    /\ fp_needles \in SeqsUpTo(NeedlePool, MaxNeedles)
    /\ fp_out = <<>>
    /\ fp_pc = "call"

\* one call of the function
FindCall ==
    /\ fp_pc = "call"
    /\ fp_out' = find_product_by_default_code_partial(fp_templates, fp_needles)
    /\ fp_pc' = "done"
    /\ UNCHANGED <<fp_templates, fp_needles>>
    /\ UNCHANGED findOthers

FindNext == FindCall

InitFind == FindInit /\ OthersIdle("find")

SpecFind == InitFind /\ [][FindNext]_vars

-----------------------------------------------------------------------------
(* Claims about the row groupers, under SpecGroup.                         *)

RowTops(row) == {row[i].top : i \in 1..Len(row)}
RowIds(row) == {row[i].id : i \in 1..Len(row)}
\* the first word placed in a row has the smallest top: words come sorted
FirstTop(row) == CHOOSE t \in RowTops(row) : \A u \in RowTops(row) : t <= u

\* which words share a row: a set of sets of word ids
PartitionOf(rows) == {RowIds(rows[r]) : r \in 1..Len(rows)}

Permuted(ws, p) == [i \in 1..Len(ws) |-> ws[p[i]]]

RECURSIVE SumLens(_)
SumLens(rows) == IF rows = <<>> THEN 0 ELSE Len(Head(rows)) + SumLens(Tail(rows))

\* C7: in both groupers the reference y of the open row is the top of the
\* first word placed in it and stays so while the row is open, hence every
\* word of every row lies within the tolerance of the row's first word.
C7_ReferenceIsFirstTop ==
    g_pc \in {"loop", "done"} =>
        /\ fila # <<>> => y_ref = <<fila[1].top>>
        /\ \A r \in 1..Len(filas) : \A t \in RowTops(filas[r]) :
               t - FirstTop(filas[r]) <= Tol(g_variant)
        /\ \A t \in RowTops(fila) : t - fila[1].top <= Tol(g_variant)

\* C7 restricted to _agrupar_por_filas, which tests `y_ref is None`
C7_GrupoPenaOnly == g_variant = "grupo_pena" => C7_ReferenceIsFirstTop

\* C8: every input word lies in exactly one row, and which words share a
\* row is the same for every order in which the same words are supplied
\* (and so for a second run on the same words).
C8_PartitionIsOrderIndependent ==
    g_pc = "done" =>
        /\ SumLens(filas) = Len(g_input)
        /\ UNION PartitionOf(filas) = 1..Len(g_input)
        /\ \A p \in Permutations(1..Len(g_input)) :
               PartitionOf(GroupRows(g_variant, Permuted(g_input, p)))
                   = PartitionOf(filas)

\* a finished run on words supplied out of vertical order, with a row of
\* several words and more than one row
C8_Witness ==
    /\ g_pc = "done"
    /\ Len(filas) >= 2
    /\ \E r \in 1..Len(filas) : Len(filas[r]) >= 2
    /\ \E i \in 1..(Len(g_input) - 1) : g_input[i].top > g_input[i + 1].top

-----------------------------------------------------------------------------
(* Claims about provider detection, under SpecDetect.                      *)

RegistryKeys == {Registry[i] : i \in 1..Len(Registry)}
Matching == {k \in RegistryKeys : AdapterDetect(k, txt, filename)}

\* C1: detect_provider returns a key iff exactly one registered adapter's
\* detect() is true, and then that adapter's key; with no match or with
\* several it returns None.
C1_SingleMatchOrNone ==
    provider \notin {"pending", "idle"} =>
        /\ provider # "None" <=> Cardinality(Matching) = 1
        /\ provider # "None" => provider \in Matching

\* an ambiguous document: two adapters matched and None was returned
C1_Witness == provider = "None" /\ Len(hits) >= 2

\* the vendors' signature phrases in a text, as the claim lists them
\* (Vendor B's phrases are read ignoring case, as Vendor A's)
SignatureA(t) ==
    LET u == Upper(StripAccents(t))
    IN Contains(u, "GRUPO PENA") \/ Contains(u, "GP AUTOMOCION")
SignatureB(t) ==
    LET u == Upper(t)
    IN Contains(u, "MICHELIN")
       /\ (Contains(u, "ENTREGAS DIARIAS") \/ Contains(u, "CAI :"))
SignatureC(t) == Contains(t, "VARONA 2008")

Signed(t) ==
    (IF SignatureA(t) THEN {"grupo_pena"} ELSE {})
    \cup (IF SignatureB(t) THEN {"michelin"} ELSE {})
    \cup (IF SignatureC(t) THEN {"varona"} ELSE {})

\* the file-name marks of Vendor A (GPA_ prefix, GPA-) and Vendor C (VA0 and
\* a digit), read ignoring case
FileMarked(fn) ==
    (IF StartsWith(Upper(fn), "GPA_") \/ Contains(Upper(fn), "GPA-")
     THEN {"grupo_pena"} ELSE {})
    \cup (IF SearchVA0Digits(Upper(fn)) THEN {"varona"} ELSE {})

\* C2 as stated: a text with exactly one vendor's signature phrase is
\* detected as that vendor, whatever the file name.
C2_SignatureDecides ==
    provider \notin {"pending", "idle"} =>
        \A v \in RegistryKeys : Signed(txt) = {v} => provider = v

\* C2 as amended: a text with exactly one vendor's signature phrase is
\* detected as that vendor when the file name carries no other vendor's mark.
C2_SignatureDecidesUnlessFileMarked ==
    provider \notin {"pending", "idle"} =>
        \A v \in RegistryKeys :
            (Signed(txt) = {v} /\ FileMarked(filename) \subseteq {v})
                => provider = v

\* an accented, mixed-case Vendor A signature detected under a neutral name
C2_Witness ==
    /\ provider = "grupo_pena"
    /\ Signed(txt) = {"grupo_pena"}
    /\ Contains(txt, "Peña")
    /\ FileMarked(filename) = {}

-----------------------------------------------------------------------------
(* Claims about parse(), under Spec.                                       *)

LeastOf(I) == CHOOSE i \in I : \A j \in I : i <= j
InBand(w, lo, hi) == w.x0 >= lo /\ w.x0 <= hi
CommaToPoint(t) == ReplaceChar(t, ",", ".")
Cell(r, col) == df.rows[r][col]
Returned == p_pc = "done" /\ ~raised
ByWords == adapter \in {"grupo_pena", "varona"}

CodeTokenAt(f, i) ==
    IF adapter = "grupo_pena"
    THEN InBand(f[i], 30, 120) /\ FullMatchCodeGP(f[i].text)
    ELSE InBand(f[i], 30, 80) /\ FullMatchUpperAlnum5(f[i].text)
HasCodeToken(f) == \E i \in 1..Len(f) : CodeTokenAt(f, i)

\* C4: when parse() of Vendor A or Vendor C succeeds, every grouped row
\* that carries a valid in-band item-code token has a line.
C4_EveryCodeRowHasLine ==
    Returned /\ ByWords =>
        \A k \in 1..Len(p_log) : HasCodeToken(p_log[k].fila) => p_log[k].emit # <<>>

\* what a row needs besides the code token to give a line
HasAmountToken(f) ==
    IF adapter = "grupo_pena"
    THEN \E i \in 1..Len(f) : InBand(f[i], 300, 360) /\ FullMatchNum24(f[i].text)
    ELSE \E i \in 1..Len(f) : MatchNumPrefix(f[i].text) # ""

RECURSIVE Emitted(_)
Emitted(log) == IF log = <<>> THEN <<>> ELSE Head(log).emit \o Emitted(Tail(log))

\* C4, amended: the lines are, in row order, one line per grouped row that
\* carries the code token and also a numeric token in the quantity band
\* [300,360] (Vendor A) or a token that starts with a number (Vendor C); a
\* row with the code token alone is skipped, and parse() raises only when
\* no row gives a line.
C4_LinesAreTheRowsWithAmounts ==
    ByWords =>
        /\ \A k \in 1..Len(p_log) :
              /\ Len(p_log[k].emit) =
                    (IF HasCodeToken(p_log[k].fila) /\ HasAmountToken(p_log[k].fila)
                     THEN 1 ELSE 0)
        /\ lineas = Emitted(p_log)
        /\ p_pc = "done" =>
              /\ Len(p_log) = Len(IF adapter = "grupo_pena"
                                  THEN agrupar_por_filas(palabras)
                                  ELSE agrupar_filas(palabras))
              /\ raised <=>
                    ~\E k \in 1..Len(p_log) :
                        HasCodeToken(p_log[k].fila) /\ HasAmountToken(p_log[k].fila)

\* parse() returned a table although a row with an item code gave no line
C4_Witness ==
    /\ Returned /\ ByWords
    /\ \E k \in 1..Len(p_log) : HasCodeToken(p_log[k].fila) /\ p_log[k].emit = <<>>

\* C5: the table of every adapter has exactly the eight header columns in
\* the declared order and holds no null marker; what a vendor does not
\* populate is the empty string.
C5_TableHasHeaderAndNoNulls ==
    Returned =>
        /\ df.cols = <<"Proveedor", "Referencia de proveedor",
                       "Líneas del pedido/Producto", "Líneas del pedido/Descripción",
                       "Líneas del pedido/Cantidad",
                       "Líneas del pedido/Precio unitario",
                       "Líneas del pedido/(%) Descuento", "Entregar a">>
        /\ df.rows # <<>>
        /\ \A r \in 1..Len(df.rows) :
              /\ DOMAIN df.rows[r] = Range(df.cols)
              /\ \A c \in DOMAIN df.rows[r] : df.rows[r][c] # NaN
              /\ adapter = "michelin" =>
                    /\ Cell(r, "Líneas del pedido/Precio unitario") = ""
                    /\ Cell(r, "Líneas del pedido/(%) Descuento") = ""

\* a table with a surcharge row after the item rows was returned
C5_Witness ==
    /\ Returned /\ lineas # <<>>
    /\ Len(df.rows) = Len(lineas) + 1
    /\ Cell(Len(df.rows), "Líneas del pedido/Precio unitario") = "2.67"

CodeA(f) == {i \in 1..Len(f) : InBand(f[i], 30, 120) /\ FullMatchCodeGP(f[i].text)}
QtyA(f) == {i \in 1..Len(f) : InBand(f[i], 300, 360) /\ FullMatchNum24(f[i].text)}
PriceNumA(f) == {i \in 1..Len(f) : InBand(f[i], 470, 510) /\ FullMatchNum24(f[i].text)}
PriceDashA(f) == {i \in 1..Len(f) : InBand(f[i], 470, 510) /\ f[i].text = "-"}
NumA(f) == {i \in 1..Len(f) : FullMatchNum24(f[i].text)}
DescA(f) ==
    JoinWith(Texts(SubSeqAt(f, {i \in 1..Len(f) : f[i].x0 >= 130 /\ f[i].x0 < 300})), " ")
AfterHyphen(raw) == Slice(raw, FirstIndexOf(raw, "-") + 1, Len(raw))
FullRowA(f) == CodeA(f) # {} /\ QtyA(f) # {} /\ PriceNumA(f) # {}

\* C9: a Vendor A row with a code token in [30,120], a numeric token in
\* [300,360] and a numeric token in [470,510] gives one line: the code after
\* its first hyphen, the description of the tokens in [130,300), and the
\* quantity and price tokens with the comma replaced by a point.
C9_LineAssembled ==
    adapter = "grupo_pena" =>
        \A k \in 1..Len(p_log) :
            LET f == p_log[k].fila
                e == p_log[k].emit
            IN FullRowA(f) =>
                  /\ Len(e) = 1
                  /\ e[1].cod \in {AfterHyphen(f[i].text) : i \in CodeA(f)}
                  /\ e[1].desc = DescA(f)
                  /\ e[1].qty \in {CommaToPoint(f[i].text) : i \in QtyA(f)}
                  /\ e[1].price \in {CommaToPoint(f[i].text) : i \in PriceNumA(f)}

\* C9, amended: as C9 with the leftmost token of each role, and the price
\* is the price token's only when no lone "-" stands in [470,510] to the
\* left of the numeric tokens of that band; with such a "-" the price is "0".
C9_LineAssembledUnlessDashFirst ==
    adapter = "grupo_pena" =>
        \A k \in 1..Len(p_log) :
            LET f == p_log[k].fila
                e == p_log[k].emit
            IN FullRowA(f) =>
                  /\ Len(e) = 1
                  /\ e[1].cod = AfterHyphen(f[LeastOf(CodeA(f))].text)
                  /\ e[1].desc = DescA(f)
                  /\ e[1].qty = CommaToPoint(f[LeastOf(QtyA(f))].text)
                  /\ e[1].price =
                        (IF \E d \in PriceDashA(f) : d < LeastOf(PriceNumA(f))
                         THEN "0"
                         ELSE CommaToPoint(f[LeastOf(PriceNumA(f))].text))

\* the row 'ABC-1234', 'FILTRO ACEITE', '2,00', '15,50' was parsed
C9_Witness ==
    /\ adapter = "grupo_pena"
    /\ \E k \in 1..Len(p_log) :
          /\ FullRowA(p_log[k].fila)
          /\ p_log[k].emit = <<[cod |-> "1234", desc |-> "FILTRO ACEITE",
                                qty |-> "2.00", price |-> "15.50"]>>

\* the rightmost numeric tokens of a row
RightmostNumA(f) == {i \in NumA(f) : \A j \in NumA(f) : f[j].x0 <= f[i].x0}

\* C10: for a Vendor A row that gives a line, a numeric token in [470,510]
\* is the price; a band that holds only a lone "-" gives 0; a band that
\* holds neither gives the rightmost numeric token of the row.
C10_PriceRule ==
    adapter = "grupo_pena" =>
        \A k \in 1..Len(p_log) :
            LET f == p_log[k].fila
                e == p_log[k].emit
            IN e # <<>> =>
                  /\ PriceNumA(f) # {} =>
                        e[1].price \in {CommaToPoint(f[i].text) : i \in PriceNumA(f)}
                  /\ PriceNumA(f) = {} /\ PriceDashA(f) # {} => e[1].price = "0"
                  /\ PriceNumA(f) = {} /\ PriceDashA(f) = {} =>
                        e[1].price \in {CommaToPoint(f[i].text) : i \in RightmostNumA(f)}

\* C10, amended: the leftmost token of [470,510] that is numeric or a lone
\* "-" decides: a numeric token is the price, a "-" gives 0, also when a
\* numeric token follows it in the band; a band that holds neither gives
\* the rightmost numeric token of the row.
C10_FirstPriceTokenDecides ==
    adapter = "grupo_pena" =>
        \A k \in 1..Len(p_log) :
            LET f == p_log[k].fila
                e == p_log[k].emit
                band == PriceNumA(f) \cup PriceDashA(f)
            IN e # <<>> =>
                  /\ band # {} =>
                        e[1].price = (IF f[LeastOf(band)].text = "-" THEN "0"
                                      ELSE CommaToPoint(f[LeastOf(band)].text))
                  /\ band = {} =>
                        /\ NumA(f) # {}
                        /\ e[1].price = CommaToPoint(f[LeastOf(RightmostNumA(f))].text)

\* a row whose band holds a "-" and then a number was priced 0
C10_Witness ==
    /\ adapter = "grupo_pena"
    /\ \E k \in 1..Len(p_log) :
          /\ p_log[k].emit # <<>>
          /\ PriceNumA(p_log[k].fila) # {}
          /\ \E d \in PriceDashA(p_log[k].fila) : d < LeastOf(PriceNumA(p_log[k].fila))
          /\ p_log[k].emit[1].price = "0"

\* the tokens of a Vendor C row (as parsear sorts it), by role
RowC(k) == SortByX0(p_log[k].fila)
NumC(f) == {i \in 1..Len(f) : MatchNumPrefix(f[i].text) # ""}
ValueC(w) == Hundredths(MatchNumPrefix(w.text))
DtoCandidates(f) ==
    SubSeqAt(f, {i \in NumC(f) : InBand(f[i], 450, 520) /\ ValueC(f[i]) <= 10000})

\* h hundredths is 100*(1-(1-d1/100)*(1-d2/100)) rounded to 2 decimals, for
\* d1 and d2 in hundredths: 10000*h is nearest to 10000*(d1+d2) - d1*d2
IsCompoundOf(h, d1, d2) ==
    /\ 10000 * h - (10000 * (d1 + d2) - d1 * d2) <= 5000
    /\ (10000 * (d1 + d2) - d1 * d2) - 10000 * h <= 5000

\* the percentages, in hundredths, next to the compound of d1 and d2
NearCompound(d1, d2) ==
    LET lo == (10000 * (d1 + d2) - d1 * d2) \div 10000
    IN {h \in {lo, lo + 1} : h >= 0 /\ h <= 10000}

\* C11: the discount of a Vendor C line is "0.00" without candidates (the
\* numeric tokens in [450,520] of value <= 100), the candidate with two
\* decimals for one, and the compound of the last two for two or more.
C11_DiscountRule ==
    adapter = "varona" =>
        \A k \in 1..Len(p_log) :
            LET c == DtoCandidates(RowC(k))
                e == p_log[k].emit
                n == Len(c)
            IN e # <<>> =>
                  /\ n = 0 => e[1].dto = "0.00"
                  /\ n = 1 => e[1].dto = CommaToPoint(MatchNumPrefix(c[1].text))
                  /\ n >= 2 =>
                        \E h \in NearCompound(ValueC(c[n - 1]), ValueC(c[n])) :
                            /\ IsCompoundOf(h, ValueC(c[n - 1]), ValueC(c[n]))
                            /\ e[1].dto = FormatHundredths(h, FALSE)

\* a row with the candidates 65,00, 15,00 and 10,00 got the compound of the
\* last two, and a row with 65,00 and 15,00 would get 70.25
C11_Witness ==
    /\ adapter = "varona"
    /\ \E k \in 1..Len(p_log) :
          /\ Len(DtoCandidates(RowC(k))) = 3
          /\ p_log[k].emit # <<>>
          /\ p_log[k].emit[1].dto = "23.50"

CodeC(f) == {i \in 1..Len(f) : InBand(f[i], 30, 80) /\ FullMatchUpperAlnum5(f[i].text)}

\* the price token of a Vendor C row: the rightmost number in [300,450],
\* else the rightmost number of the row
PriceC(f) ==
    LET cand == {i \in NumC(f) : InBand(f[i], 300, 450)}
        from == IF cand # {} THEN cand ELSE NumC(f)
    IN LeastOf({i \in from : \A j \in from : f[j].x0 <= f[i].x0})

\* the quantity token of a Vendor C row, {} when it has none
QtyC(f) ==
    LET inband == {i \in NumC(f) : InBand(f[i], 100, 300)}
        between == {i \in NumC(f) :
                      f[LeastOf(CodeC(f))].x0 < f[i].x0 /\ f[i].x0 < f[PriceC(f)].x0}
    IN IF inband # {} THEN {LeastOf(inband)}
       ELSE IF between # {} THEN {LeastOf(between)}
       ELSE {}

\* the "-d,dd" suffixes glued to the tokens between the code and the price
GluedC(f) ==
    {TrailingNegDigits(f[i].text) :
        i \in {j \in (LeastOf(CodeC(f)) + 1)..Len(f) :
                  f[j].x0 < f[PriceC(f)].x0 /\ TrailingNegStart(f[j].text) > 0}}

\* C12: the quantity of a Vendor C row with a code and a number is the first
\* number in [100,300], else the first number strictly between the code and
\* the price; a lone "-" at most 10 units to its left makes it negative;
\* without a quantity token it is the "-d,dd" glued to a description token,
\* else "1.00".
C12_QuantityRule ==
    adapter = "varona" =>
        \A k \in 1..Len(p_log) :
            LET f == RowC(k)
                e == p_log[k].emit
            IN CodeC(f) # {} /\ NumC(f) # {} =>
                  /\ Len(e) = 1
                  /\ \A q \in QtyC(f) :
                        e[1].qty =
                          (IF \E i \in 1..Len(f) :
                                 /\ f[i].text = "-"
                                 /\ f[i].x0 < f[q].x0 /\ f[q].x0 - f[i].x0 <= 10
                           THEN "-" ELSE "") \o CommaToPoint(f[q].text)
                  /\ QtyC(f) = {} /\ GluedC(f) # {} =>
                        e[1].qty \in {"-" \o CommaToPoint(g) : g \in GluedC(f)}
                  /\ QtyC(f) = {} /\ GluedC(f) = {} => e[1].qty = "1.00"

\* a row whose quantity token has a detached "-" to its left was parsed, and
\* so was the quantity negative
C12_Witness ==
    /\ adapter = "varona"
    /\ \E k \in 1..Len(p_log) :
          /\ p_log[k].emit # <<>>
          /\ QtyC(RowC(k)) # {}
          /\ p_log[k].emit[1].qty = "-2.00"

\* the warehouse a line of the text names at its start, "" when none
NamedAtStart(linea) ==
    LET up == Upper(Strip(linea))
    IN IF StartsWith(up, "CENTRAL") THEN "Central"
       ELSE IF StartsWith(up, "MIRALBAIDA") THEN "Miralbaida"
       ELSE IF StartsWith(up, "AMARGACENA") THEN "Amargacena"
       ELSE ""

\* the lines of the text Varona.parse hands to detectar_almacen: one word each
TextLinesC == Texts(palabras)
NamingLines == {i \in 1..Len(TextLinesC) : NamedAtStart(TextLinesC[i]) # ""}

\* C13: when several lines of the text start with a warehouse name, the
\* destination is the warehouse of the last of them, not of the first.
C13_LastWarehouseLineWins ==
    Returned /\ adapter = "varona" /\ NamingLines # {} =>
        \A r \in 1..Len(df.rows) :
            Cell(r, "Entregar a") =
                NamedAtStart(TextLinesC[CHOOSE i \in NamingLines :
                                           \A j \in NamingLines : j <= i])

\* a table was returned for a text whose first and last naming lines differ
C13_Witness ==
    /\ Returned /\ adapter = "varona" /\ Cardinality(NamingLines) >= 2
    /\ NamedAtStart(TextLinesC[LeastOf(NamingLines)]) # Cell(1, "Entregar a")

\* the text of a Vendor A document: its words joined by blanks
TextA == JoinWith(Texts(palabras), " ")
NamesSurcharge(t) ==
    Contains(Lower(StripAccents(t)), "aportacion al servicio de reparto")

\* row r is a surcharge row: quantity 1, unit price 2.67, discount 0
IsSurchargeRow(r) ==
    /\ Cell(r, "Líneas del pedido/Producto") = "APORTACION AL SERVICIO DE REPARTO"
    /\ Cell(r, "Líneas del pedido/Cantidad") \in {"1", "1.00"}
    /\ Cell(r, "Líneas del pedido/Precio unitario") = "2.67"
    /\ Cell(r, "Líneas del pedido/(%) Descuento") = "0.00"
SurchargeRows == {r \in 1..Len(df.rows) : IsSurchargeRow(r)}

\* C14: Vendor A's table has a surcharge row iff the text, without accents
\* and in lower case, contains the phrase; it is then one row, the last, with
\* quantity 1, unit price 2.67 and discount 0.
C14_SurchargeIffPhrase ==
    Returned /\ adapter = "grupo_pena" =>
        /\ SurchargeRows = (IF NamesSurcharge(TextA) THEN {Len(df.rows)} ELSE {})
        /\ Len(df.rows) = Len(lineas) + Cardinality(SurchargeRows)
        /\ \A r \in SurchargeRows : Cell(r, "Líneas del pedido/Cantidad") = "1"

\* a Vendor A table that ends with the surcharge row
C14_Witness ==
    /\ Returned /\ adapter = "grupo_pena" /\ NamesSurcharge(TextA)
    /\ IsSurchargeRow(Len(df.rows)) /\ Len(df.rows) >= 2

\* the words of the document hold the phrase as consecutive words
PhraseInWords ==
    \E i \in 1..(Len(palabras) - 4) :
        Lower(StripAccents(JoinWith(Texts(SubSeq(palabras, i, i + 4)), " ")))
            = "aportacion al servicio de reparto"

\* C15: whenever the words of a Vendor C page hold the phrase as
\* consecutive words, the table ends with the surcharge row.
C15_SurchargeWhenPhrase ==
    Returned /\ adapter = "varona" /\ PhraseInWords => IsSurchargeRow(Len(df.rows))

\* the lines of a Vendor B text that hold a "CAI : <code>" marker
MarkerLines == {i \in 1..Len(m_lines) : MarkerPos(m_lines[i]) > 0}

\* C16: Vendor B emits one order line per "CAI : <code>" marker of the
\* text: the product rows are as many as the markers.
C16_OneLinePerMarker ==
    p_pc = "done" /\ adapter = "michelin" =>
        /\ Len(lineas) = Cardinality(MarkerLines)
        /\ lineas # <<>> => Len(df.rows) = Cardinality(MarkerLines)

-----------------------------------------------------------------------------
(* Claims about the numeric helpers, under SpecNum.                        *)

HasDigit(s) == \E i \in 1..Len(s) : IsDigit(Char(s, i))

\* ".ddd" groups up to the end of s
RECURSIVE ThousandsGroups(_)
ThousandsGroups(s) ==
    \/ s = ""
    \/ /\ Char(s, 1) = "."
       /\ Len(s) >= 4 /\ AllDigits(Slice(s, 2, 4))
       /\ ThousandsGroups(Slice(s, 5, Len(s)))

LocaleSigned(s) == Char(s, 1) \in {"-", "+"}
LocaleBody(s) == IF LocaleSigned(s) THEN Slice(s, 2, Len(s)) ELSE s
LocaleIntPart(s) ==
    LET b == LocaleBody(s)
        c == FirstIndexOf(b, ",")
    IN IF c = 0 THEN b ELSE Slice(b, 1, c - 1)
LocaleFracPart(s) ==
    LET b == LocaleBody(s)
        c == FirstIndexOf(b, ",")
    IN IF c = 0 THEN "" ELSE Slice(b, c + 1, Len(b))

\* a number in the locale's format: an optional sign, digits either plain or
\* in groups of three separated by ".", and optionally "," and decimals
LocaleNumber(s) ==
    LET ip == LocaleIntPart(s)
        d == RunOf(ip, 1, Digits)
    IN /\ d >= 1
       /\ d = Len(ip) \/ (d <= 3 /\ ThousandsGroups(Slice(ip, d + 1, Len(ip))))
       /\ \/ ~InStr(",", LocaleBody(s))
          \/ LocaleFracPart(s) # "" /\ AllDigits(LocaleFracPart(s))

\* the value a reader of the locale gives to a locale-formatted number
LocaleValue(s) ==
    Float(Char(s, 1) = "-", RemoveChar(LocaleIntPart(s), "."), LocaleFracPart(s), 0)

ParseDecimalDone == n_pc = "done" /\ n_fn = "parse_decimal"

\* C17: parse_decimal never raises; it returns the caller's default for None,
\* for the empty string and for a text that is not a number (here: a text
\* without a single digit), and the number's value for a locale-formatted
\* number.
C17_DefaultOrLocaleValue ==
    ParseDecimalDone =>
        /\ n_out # ValueError
        /\ (n_in = "None" \/ ~HasDigit(n_in)) => n_out = n_default
        /\ (n_in # "None" /\ LocaleNumber(n_in)) => n_out = LocaleValue(n_in)

\* the percentages written in a chain: the pieces between blanks, commas
\* and "%"
RECURSIVE ChainValues(_)
ChainValues(s) ==
    IF s = "" THEN <<>>
    ELSE LET d == RunOf(s, 1, Digits)
         IN IF d = 0 THEN ChainValues(Tail(s))
            ELSE <<StrToNat(Slice(s, 1, d))>> \o ChainValues(Slice(s, d + 1, Len(s)))

\* the product of 100 - d over the whole percentages ds
RECURSIVE Retained(_)
Retained(ds) == IF ds = <<>> THEN 1 ELSE (100 - Head(ds)) * Retained(Tail(ds))

\* 100 * (1 - product of (1 - d/100)) in millionths of a percent
Effective(ds) == (Pow10(2 * Len(ds)) - Retained(ds)) * Pow10(8 - 2 * Len(ds))

ChainDone == n_pc = "done" /\ n_fn = "_parse_discounts_chain"

\* C18: every chain of percentages separated by blanks, commas or "%" is
\* folded as 100 * (1 - product of (1 - d/100)): nothing gives 0, one
\* discount gives itself, 50 and 50 give 75, in either order of the values.
C18_ChainFoldedByCompounding ==
    ChainDone =>
        n_out = Effective(ChainValues(IF n_in = "None" THEN "" ELSE n_in))

-----------------------------------------------------------------------------
(* Claims about the batch loop of cli.main, under SpecCliLive.             *)

IsPrefix(a, b) == Len(a) <= Len(b) /\ SubSeq(b, 1, Len(a)) = a

\* the PDFs whose processing has ended, in the order they ended
EndedPdfs == [k \in 1..Len(c_log) |-> c_log[k].pdf]

SortedPdfs == \A i, j \in 1..Len(c_pdfs) : i < j => StrLess(c_pdfs[i], c_pdfs[j])

\* C19: the PDFs are attempted once each in the order of the sorted list
\* (what has been read, and what has ended, is always a prefix of the list);
\* an exception or an undetected provider ends only that PDF; and the loop
\* ends with every PDF of the list attempted.
C19_EveryPdfAttemptedOnceInOrder ==
    /\ [](SortedPdfs /\ IsPrefix(c_reads, c_pdfs) /\ IsPrefix(EndedPdfs, c_reads))
    /\ <>(c_stage \in {"done", "exit"} /\ c_reads = c_pdfs /\ EndedPdfs = c_pdfs)

\* the first PDF ended in an exception and the second was processed to the end
C19_Witness ==
    /\ c_stage = "done" /\ Len(c_log) >= 2
    /\ c_log[1].result = "error" /\ c_log[2].result = "moved"

\* the PDFs a step moves to processed/
MovedNow == c_files'.processed \ c_files.processed

\* C23: a PDF is moved to processed/ only after its CSV was written and,
\* with --import, only after the importer call for it returned; a PDF whose
\* parse, CSV writing or import raised is never in processed/.
C23_MovedOnlyAfterCsvAndImport ==
    /\ [][c_stage # "idle" =>
            \A p \in MovedNow :
                p \in c_files.csv /\ (c_do_import => p \in c_files.imported)]_vars
    /\ [](c_stage # "idle" =>
            \A k \in 1..Len(c_log) :
                c_log[k].result = "error" => c_log[k].pdf \notin c_files.processed)

\* with --import, one PDF failed and stayed, another was imported and moved
C23_Witness ==
    /\ c_stage = "done" /\ c_do_import
    /\ \E k \in 1..Len(c_log) : c_log[k].result = "error"
    /\ \E p \in c_files.processed : p \in c_files.imported

-----------------------------------------------------------------------------
(* Claims about the forced import, under SpecImport.                       *)

\* the pipeline was run with --force-import or with ODOO_IMPORT_FORCE set
ForceRequested == i_args.force_import \/ env_force(i_environ)

\* the CSV's supplier reference already has a purchase order of the partner
\* that is not cancelled
RefHasLiveOrder ==
    i_csv.ref # "" /\ LiveOrders(i_before, "partner_ref", i_csv.ref) # {}

\* C20: with --force-import (or ODOO_IMPORT_FORCE set) a CSV whose supplier
\* reference already has a non-cancelled purchase order of the partner is
\* imported again: a new purchase order is created, the import is not
\* skipped.
C20_ForcedImportCreatesOrder ==
    (/\ i_pc = "done" /\ i_result # "not imported"
     /\ ForceRequested /\ RefHasLiveOrder
     /\ i_csv.partner_found /\ i_csv.has_lines)
    => (i_result = "created" /\ Len(i_orders) = Len(i_before) + 1)

-----------------------------------------------------------------------------
(* More claims about Vendor C's parse(), under Spec.                       *)

\* the tokens the fields of the line of row k were read from: the price
\* token, the quantity token (0 when the quantity is not read from a number
\* of the row) and the discount candidates
PriceTokenOf(k) == VPriceIdx(RowC(k))
QtyTokenOf(k) == VQtyIdx(RowC(k), LeastOf(VCodeIdx(RowC(k))))
DtoTokensOf(k) == VDtoIdx(RowC(k))

DifferentTokens(k) ==
    /\ QtyTokenOf(k) # PriceTokenOf(k)
    /\ PriceTokenOf(k) \notin DtoTokensOf(k)
    /\ QtyTokenOf(k) \notin DtoTokensOf(k)

\* C28 as stated: in every line Vendor C emits, quantity, unit price and
\* discount come from different tokens of the row.
C28_FieldsFromDifferentTokens ==
    adapter = "varona" =>
        \A k \in 1..Len(p_log) : p_log[k].emit # <<>> => DifferentTokens(k)

PriceInsideBand(k) ==
    LET w == RowC(k)[PriceTokenOf(k)] IN w.x0 > 300 /\ w.x0 < 450

\* C28 as the code has it: quantity, unit price and discount come from
\* different tokens in every line whose price token lies strictly inside the
\* price band (300,450); a price token at 300, at 450 or taken by the
\* fallback (the rightmost number of the row) may serve a second field.
C28_DifferentTokensWhenPriceInsideBand ==
    adapter = "varona" =>
        \A k \in 1..Len(p_log) :
            (p_log[k].emit # <<>> /\ PriceInsideBand(k)) => DifferentTokens(k)

\* a line with a price inside the band, a quantity token and a discount
C28_Witness ==
    /\ adapter = "varona"
    /\ \E k \in 1..Len(p_log) :
          /\ p_log[k].emit # <<>> /\ PriceInsideBand(k)
          /\ QtyTokenOf(k) # 0 /\ DtoTokensOf(k) # {}

\* the discount of a line, in hundredths of a percent
DtoOf(k) == Hundredths(ReplaceChar(p_log[k].emit[1].dto, ".", ","))

\* C29 as stated: every discount Vendor C emits lies between 0.00 and 100.00.
C29_DiscountIsPercentage ==
    adapter = "varona" =>
        \A k \in 1..Len(p_log) :
            p_log[k].emit # <<>> => (DtoOf(k) >= 0 /\ DtoOf(k) <= 10000)

NoNegativeCandidate(k) ==
    \A i \in 1..Len(DtoCandidates(RowC(k))) : ValueC(DtoCandidates(RowC(k))[i]) >= 0

\* C29 as the code has it: no discount is above 100.00, and none is below
\* 0.00 unless a token of the discount band is negative.
C29_DiscountAtMostHundred ==
    adapter = "varona" =>
        \A k \in 1..Len(p_log) :
            p_log[k].emit # <<>> =>
                /\ DtoOf(k) <= 10000
                /\ NoNegativeCandidate(k) => DtoOf(k) >= 0

\* a line of a row that has two candidates and a number above 100 in the band
C29_Witness ==
    /\ adapter = "varona"
    /\ \E k \in 1..Len(p_log) :
          /\ p_log[k].emit # <<>>
          /\ Len(DtoCandidates(RowC(k))) = 2 /\ NoNegativeCandidate(k)
          /\ \E i \in NumC(RowC(k)) :
                InBand(RowC(k)[i], 450, 520) /\ ValueC(RowC(k)[i]) > 10000

-----------------------------------------------------------------------------
(* Claims about the importer's reading of the adapters' tables, under Spec. *)

\* C21: for every item the Vendor A or Vendor C matcher emitted, _extract_sku
\* applied to the Product cell "[code] description" of its row returns
\* exactly the code the adapter put between the brackets.
C21_SkuRoundTrip ==
    Returned /\ ByWords =>
        \A i \in 1..Len(lineas) :
            extract_sku(Cell(i, COL_PRODUCTO)) = lineas[i].cod

-----------------------------------------------------------------------------
(* Claims about repeated imports of one CSV file, under SpecOdoo.          *)

\* the calls of import_csv that created a purchase order
Created == {k \in 1..Len(o_calls) : o_calls[k].result = "created"}
DedupOnForceOff == o_e.dedup_by_partner_ref /\ ~o_e.force

\* C22: with force off and DEDUP_BY_PARTNER_REF on, any number of import_csv
\* calls on the same CSV creates at most one purchase order, whether the
\* reference is non-empty or empty.
C22_AtMostOneOrderPerCsv == DedupOnForceOff => Cardinality(Created) <= 1

\* what the claim calls a row that can become an order line: its Product
\* cell gives an SKU and its Quantity cell has a digit other than 0
HasSku(r) == extract_sku(r.prod) # ""
NonZeroQty(r) == \E i \in 1..Len(r.qty) : InStr(Char(r.qty, i), "123456789")
IsPlaceholder(r) == r.prod = "" /\ r.desc = "NO SE DETECTARON LÍNEAS"

\* C24: a call of import_csv creates a purchase order only if some row of
\* the CSV has a non-empty SKU and a non-zero quantity; every order line it
\* builds comes from such a row; and a CSV made of Vendor B's placeholder
\* row gives no purchase order.
C24_OrderLinesFromValidRows ==
    \A k \in 1..Len(o_calls) :
        /\ o_calls[k].result = "created" =>
              \E r \in 1..Len(o_csv.rows) :
                  HasSku(o_csv.rows[r]) /\ NonZeroQty(o_csv.rows[r])
        /\ \A i \in 1..Len(o_calls[k].lines) :
              /\ HasSku(o_csv.rows[o_calls[k].lines[i].row])
              /\ NonZeroQty(o_csv.rows[o_calls[k].lines[i].row])
        /\ (\A r \in 1..Len(o_csv.rows) : IsPlaceholder(o_csv.rows[r])) =>
              o_calls[k].result # "created"

\* an order was created from a CSV that also holds a row with quantity 0,
\* which gave no order line
C24_Witness ==
    /\ Len(o_calls) >= 1 /\ Len(o_csv.rows) = 2
    /\ o_calls[1].result = "created" /\ Len(o_calls[1].lines) = 1
    /\ \E r \in 1..2 : HasSku(o_csv.rows[r]) /\ ~NonZeroQty(o_csv.rows[r])

-----------------------------------------------------------------------------
(* Claims about the passes of pipeline.main, under SpecPipe.               *)

PdfInInbox ==
    \E e \in pl_inbox :
        e.is_file /\ Len(e.name) >= 4
                  /\ Lower(SubSeq(e.name, Len(e.name) - 3, Len(e.name))) = ".pdf"
NewCsvsOfFirstPass == pl_runs[1].csvs \ pl_before

\* C25: cli.py runs at most twice, the second time without --fetch-mail; it
\* runs a second time exactly when the first pass returned 0, left no new
\* CSV, the inbox held a PDF before it and --no-fetch-mail was not given;
\* a pass that ends with a non-zero exit code is the last one and the
\* pipeline ends with that exit code.
C25_SecondPassIffFallback ==
    /\ Len(pl_runs) <= 2
    /\ Len(pl_runs) = 2 => ~pl_runs[2].fetch_mail
    /\ pl_pc = "done" =>
          (Len(pl_runs) = 2 <=>
              /\ pl_runs[1].rc = 0 /\ NewCsvsOfFirstPass = {}
              /\ PdfInInbox /\ ~pl_no_fetch)
    /\ \A k \in 1..Len(pl_runs) :
          pl_runs[k].rc # 0 =>
              /\ k = Len(pl_runs) /\ pl_pc = "done"
              /\ pl_runs[k].rc > 0 => pl_exit = <<pl_runs[k].rc>>

\* the local pass ran and failed, and the pipeline ended with its code
C25_Witness ==
    /\ pl_pc = "done" /\ Len(pl_runs) = 2
    /\ pl_runs[1].fetch_mail /\ pl_runs[2].rc = 2 /\ pl_exit = <<2>>

-----------------------------------------------------------------------------
(* Claims about the mail download, under SpecMail.                         *)

SavedBy(k) == {j \in 1..Len(gm_saves) : gm_saves[j].msg = k}

\* C26: a message is flagged \Seen only if GMAIL_MARK_SEEN is on and a PDF
\* of it was saved in this pass; a message that gave no PDF, or whose
\* processing raised, is still unread; and every message of the search is
\* processed whatever happened to the ones before it.
C26_SeenOnlyAfterSavedPdf ==
    /\ \A k \in gm_seen : gm_cfg.mark_seen /\ SavedBy(k) # {}
    /\ \A j \in 1..Len(gm_log) :
          gm_log[j].result # "done" \/ gm_log[j].paths = <<>> =>
              gm_log[j].msg \notin gm_seen
    /\ gm_pc = "done" => Len(gm_log) = Len(gm_ids)

\* C27: every _save_pdf call writes a path that did not exist before the
\* call, so the files written by N calls are N distinct files.
C27_SaveNeverOverwrites ==
    /\ \A j \in 1..Len(gm_saves) : ~gm_saves[j].existed /\ gm_saves[j].path \in gm_disk
    /\ Cardinality({gm_saves[j].path : j \in 1..Len(gm_saves)}) = Len(gm_saves)

\* two attachments whose sanitized names coincide were both saved
C27_Witness ==
    \E a, b \in 1..Len(gm_saves) :
        /\ a < b
        /\ sanitize_filename(gm_saves[a].fname) = sanitize_filename(gm_saves[b].fname)
        /\ gm_saves[a].path # gm_saves[b].path

-----------------------------------------------------------------------------
(* Claims about the partial product lookup, under SpecFind.                *)

\* how well a template matches a needle, and its best match over all needles
MatchRank(t, needle) ==
    LET dc == Upper(t.default_code)
        n == Upper(Strip(needle))
    IN IF n = "" THEN 0
       ELSE IF dc = n THEN 100
       ELSE IF EndsWith(dc, n) THEN 90
       ELSE IF Contains(dc, n) THEN 80
       ELSE 0
BestMatch(t) ==
    LET ranks == {MatchRank(t, fp_needles[k]) : k \in 1..Len(fp_needles)} \cup {0}
    IN CHOOSE r \in ranks : \A s \in ranks : s <= r

\* u ranks above t: a better best match, then a shorter default_code, then
\* a more recent write_date
RanksAbove(u, t) ==
    \/ BestMatch(u) > BestMatch(t)
    \/ BestMatch(u) = BestMatch(t) /\ Len(u.default_code) < Len(t.default_code)
    \/ BestMatch(u) = BestMatch(t) /\ Len(u.default_code) = Len(t.default_code)
         /\ u.write_date > t.write_date

\* C30: the product returned is that of a template that matches a needle
\* and is ranked highest by its best match over all needles, then the
\* shorter default_code, then the more recent write_date; None is returned
\* only when no template contains any needle.
C30_ReturnsHighestRanked ==
    fp_pc = "done" =>
        /\ fp_out = <<>> => \A t \in fp_templates : BestMatch(t) = 0
        /\ fp_out # <<>> =>
              \E t \in fp_templates :
                  /\ t.product = fp_out[1] /\ BestMatch(t) > 0
                  /\ \A u \in fp_templates : ~RanksAbove(u, t)

=============================================================================
